---- MODULE Spec2Model ----
(***************************************************************************)
(* State-machine model of linearmodels/system/model.py: the system         *)
(* estimators IV3SLS, SUR and IVSystemGMM.                                 *)
(*                                                                         *)
(* One model object is followed through its life: construction (equation   *)
(* ingestion, row-count check, missing-data alignment, per-equation        *)
(* validation), add_constraints / reset_constraints, and fit.              *)
(*                                                                         *)
(* Numerical content is abstracted symbolically: an array is the record of *)
(* what it was computed from, so two arrays are equal in the model exactly *)
(* when the code computes them from the same inputs by the same formula.   *)
(* Shapes, row sets, missing masks, weights, counters, labels and option   *)
(* strings are concrete.                                                   *)
(***************************************************************************)
EXTENDS Integers, Sequences, FiniteSets, TLC

VARIABLES
    phase,        \* "new" (nothing built), "ready" (a model object exists), "failed"
    mod,          \* the model object's attributes set by __init__/_validate_data
    constraints,  \* self._constraints
    xhat,         \* self._xhat / self._wxhat, rewritten by _construct_xhat
    results,      \* the record returned by the most recent fit call
    warnings,     \* number of dropped-rows diagnostics emitted by construction
    error,        \* the exception raised by the most recent call, if any
    route,        \* how the model was built: "init", "multivariate_ls", "from_formula"
    given,        \* the equations the class constructor was called with
    asked,        \* what the caller passed: the mapping's kind and insertion
                  \* order, the class called and the weight_type argument
    kept,         \* a results record the caller kept from an earlier fit
    stats,        \* one equation's summary statistics (_common_indiv_results)
    stacked       \* the arrays of one stacked least-squares solve and its outcome

vars == <<phase, mod, constraints, xhat, results, warnings, error, route, given,
          asked, kept, stats, stacked>>

-----------------------------------------------------------------------------
(* Bounds of the model                                                     *)

MaxRows == 5        \* raw observations per equation
MaxIterLimit == 2   \* largest iter_limit passed to fit
MaxTol == 1         \* largest tol passed to fit (abstract magnitude)
MaxDelta == 1       \* largest parameter change of one step (abstract magnitude)
MaxSS == 3          \* largest sum of squares in an equation's summary statistics
MaxVal == 1         \* largest entry of an array in the stacked least-squares solve
SolveRows == 2      \* observations in the stacked least-squares solve

-----------------------------------------------------------------------------
(* Strings are sequences of characters, so that lower(), sorted() and      *)
(* concatenation are computed rather than assumed.                         *)

Ord(c) ==
    CASE c = "B" -> 66 [] c = "H" -> 72 [] c = "O" -> 79 [] c = "R" -> 82
      [] c = "S" -> 83 [] c = "T" -> 84 [] c = "U" -> 85
      [] c = "_" -> 95 [] c = "a" -> 97 [] c = "b" -> 98 [] c = "c" -> 99
      [] c = "d" -> 100 [] c = "e" -> 101 [] c = "h" -> 104 [] c = "i" -> 105
      [] c = "j" -> 106 [] c = "k" -> 107 [] c = "l" -> 108 [] c = "m" -> 109
      [] c = "n" -> 110 [] c = "o" -> 111 [] c = "r" -> 114 [] c = "s" -> 115
      [] c = "t" -> 116 [] c = "u" -> 117 [] c = "x" -> 120 [] c = "y" -> 121
      [] c = "z" -> 122

\* str.lower()
LowerChar(c) ==
    CASE c = "B" -> "b" [] c = "H" -> "h" [] c = "O" -> "o" [] c = "R" -> "r"
      [] c = "S" -> "s" [] c = "T" -> "t" [] c = "U" -> "u" [] OTHER -> c

Lower(s) == [i \in 1..Len(s) |-> LowerChar(s[i])]

\* Python's ordering of str: by code point, a proper prefix first
RECURSIVE StrLess(_, _)
StrLess(s, t) ==
    IF t = <<>> THEN FALSE
    ELSE IF s = <<>> THEN TRUE
    ELSE IF Ord(Head(s)) # Ord(Head(t)) THEN Ord(Head(s)) < Ord(Head(t))
    ELSE StrLess(Tail(s), Tail(t))

\* sorted(keys) for distinct keys
RECURSIVE SortedSeq(_)
SortedSeq(S) ==
    IF S = {} THEN <<>>
    ELSE LET m == CHOOSE a \in S : \A b \in S \ {a} : StrLess(a, b)
         IN  <<m>> \o SortedSeq(S \ {m})

Max(a, b) == IF a >= b THEN a ELSE b

RECURSIVE SumOver(_, _)
SumOver(f, S) ==
    IF S = {} THEN 0
    ELSE LET r == CHOOSE r \in S : TRUE IN f[r] + SumOver(f, S \ {r})

RECURSIVE Gcd(_, _)
Gcd(a, b) == IF b = 0 THEN a ELSE Gcd(b, a % b)

\* a / b as a fraction in lowest terms
Frac(a, b) == LET g == Gcd(a, b) IN IF g = 0 THEN <<a, b>> ELSE <<a \div g, b \div g>>

-----------------------------------------------------------------------------
(* Labeled matrices (IVData)                                               *)

NoneId == 0     \* id of the None object
NoneMat == [n |-> 0, cols |-> <<>>, null |-> {}, id |-> NoneId, vals |-> <<>>]

\* A caller-supplied array: n rows, named columns, the rows holding a missing
\* value, the identity of the Python object, and the values: of a weight
\* vector, or of the first column of a regressor array when that column is a
\* constant (<<>> otherwise: the values are whatever the data holds)
Mat(n, cols, null, id, vals) ==
    [n |-> n, cols |-> cols, null |-> null, id |-> id, vals |-> vals]

\* IVData(value, nobs=nobs): None becomes an nobs-by-0 matrix
IVData(m, nobs) ==
    IF m.id = NoneId
    THEN [rows |-> 1..nobs, cols |-> <<>>, isnull |-> {}, id |-> NoneId, vals |-> <<>>]
    ELSE [rows |-> 1..m.n, cols |-> m.cols, isnull |-> m.null, id |-> m.id,
          vals |-> m.vals]

\* IVData(ones_like(dep)) / IVData(ones(dep.shape))
OnesData(dep) ==
    [rows |-> dep.rows, cols |-> <<>>, isnull |-> {}, id |-> NoneId,
     vals |-> [r \in dep.rows |-> 1]]

Shape0(d) == Cardinality(d.rows)
Shape1(d) == Len(d.cols)

\* IVData.drop(missing)
Drop(d, missing) ==
    [d EXCEPT !.rows = d.rows \ missing,
              !.isnull = d.isnull \ missing,
              !.vals = IF d.vals = <<>> THEN <<>>
                       ELSE [r \in (d.rows \ missing) |-> d.vals[r]]]

-----------------------------------------------------------------------------
(* Equation ingestion: the first loop of _validate_data                    *)

\* _to_ordered_dict: the labels in the order the equations are processed.
\* eqs is the mapping as a sequence of <<label, eq_data>> in insertion order.
ToOrderedDict(eqs, ordered) ==
    IF ordered THEN eqs
    ELSE LET keys == SortedSeq({eqs[i][1] : i \in DOMAIN eqs})
         IN  [j \in DOMAIN keys |->
                 LET i == CHOOSE i \in DOMAIN eqs : eqs[i][1] = keys[j] IN eqs[i]]

\* The two forms of eq_data.  xfull and zfull are numerical facts about the
\* equation's data: whether X = [exog, endog] and Z = [exog, instr] have
\* full column rank once the missing rows are dropped.
TupleEq(items, xfull, zfull) ==
    [form |-> "tuple", items |-> items, keys |-> {},
     dependent |-> NoneMat, exog |-> NoneMat, endog |-> NoneMat,
     instruments |-> NoneMat, weights |-> NoneMat, xfull |-> xfull, zfull |-> zfull]

DictEq(dep, exog, endog, instr, weights, keys, xfull, zfull) ==
    [form |-> "dict", items |-> <<>>, keys |-> keys,
     dependent |-> dep, exog |-> exog, endog |-> endog,
     instruments |-> instr, weights |-> weights, xfull |-> xfull, zfull |-> zfull]

\* One equation converted to its five IVData fields and its identity key.
\* A tuple holds (dependent, exog, endog, instruments[, weights]); a mapping
\* holds 'dependent', 'exog' and the optional keys named in e.keys.
ParseTuple(e) ==
    LET t    == e.items
        dep  == IVData(t[1], 0)
        endog == IVData(t[3], Shape0(dep))
    IN  [dep |-> dep,
         exog |-> IVData(t[2], 0),
         endog |-> endog,
         instr |-> IVData(t[4], Shape0(dep)),
         weights |-> IF Len(t) = 5 THEN IVData(t[5], 0) ELSE OnesData(dep),
         id |-> IF Shape1(endog) > 0 THEN <<t[2].id, t[3].id>> ELSE <<t[2].id>>,
         xfull |-> e.xfull, zfull |-> e.zfull]

ParseDict(e) ==
    LET dep == IVData(e.dependent, 0)
        get(key, val) == IF key \in e.keys THEN val ELSE NoneMat
    IN  [dep |-> dep,
         exog |-> IVData(e.exog, 0),
         endog |-> IVData(get("endog", e.endog), Shape0(dep)),
         instr |-> IVData(get("instruments", e.instruments), Shape0(dep)),
         weights |-> IF "weights" \in e.keys THEN IVData(e.weights, 0) ELSE OnesData(dep),
         id |-> IF "endog" \in e.keys THEN <<e.exog.id, e.endog.id>> ELSE <<e.exog.id>>,
         xfull |-> e.xfull, zfull |-> e.zfull]

ParseEq(e) == IF e.form = "tuple" THEN ParseTuple(e) ELSE ParseDict(e)

\* eq_data[2], eq_data[3] of a tuple that is too short
TupleTooShort(e) == e.form = "tuple" /\ Len(e.items) < 4

-----------------------------------------------------------------------------
(* Row-count agreement within each equation (before any row is dropped)    *)

RowsAgree(p) ==
    /\ Shape0(p.dep) = Shape0(p.exog)
    /\ Shape0(p.dep) = Shape0(p.endog)
    /\ Shape0(p.dep) = Shape0(p.instr)

-----------------------------------------------------------------------------
(* _drop_missing                                                           *)

\* Variant: the weights' missing rows are left out of the mask
MissingMaskNoWeights(ps) ==
    UNION {ps[i].dep.isnull \cup ps[i].exog.isnull \cup ps[i].endog.isnull
             \cup ps[i].instr.isnull : i \in DOMAIN ps}

\* missing |= isnull of the five fields of every equation
MissingMask(ps) ==
    UNION {ps[i].dep.isnull \cup ps[i].exog.isnull \cup ps[i].endog.isnull
             \cup ps[i].instr.isnull \cup ps[i].weights.isnull : i \in DOMAIN ps}

DropEq(p, missing) ==
    [p EXCEPT !.dep = Drop(p.dep, missing),
              !.exog = Drop(p.exog, missing),
              !.endog = Drop(p.endog, missing),
              !.instr = Drop(p.instr, missing),
              !.weights = Drop(p.weights, missing)]

DropMissing(ps) ==
    LET missing == MissingMask(ps)
    IN  IF missing # {} THEN [i \in DOMAIN ps |-> DropEq(ps[i], missing)] ELSE ps

\* missing_warning(missing): one diagnostic when any row is flagged
MissingWarning(missing) == IF missing # {} THEN 1 ELSE 0

-----------------------------------------------------------------------------
(* The second loop of _validate_data: arrays, names and checks             *)

SrcOf(d) == IF Shape1(d) = 0 THEN <<>> ELSE <<d.id>>

\* np.concatenate([a.ndarray, b.ndarray], 1)
Concat(a, b) == [rows |-> a.rows, k |-> Shape1(a) + Shape1(b), src |-> SrcOf(a) \o SrcOf(b)]

\* w / nanmean(w), each entry as a fraction in lowest terms
NormWeights(wd) ==
    LET n == Cardinality(wd.rows)
        s == SumOver(wd.vals, wd.rows)
    IN  [r \in wd.rows |-> Frac(wd.vals[r] * n, s)]

\* a * sqrt(w): a itself, value for value, when every weight is one
Weighted(a, w) ==
    IF \A r \in DOMAIN w : w[r] = <<1, 1>> THEN a ELSE [a |-> a, w |-> w]

\* has_constant(x): whether x holds a constant column, and where.  The inputs
\* of this model carry a constant, when they have one, as the first column of
\* exog; its values are the array's vals.
HasConstant(exog, endog) ==
    IF /\ Shape1(exog) > 0
       /\ exog.vals # <<>>
       /\ \A r, q \in exog.rows : exog.vals[r] = exog.vals[q] /\ exog.vals[r] # 0
    THEN [const |-> TRUE, loc |-> 0]
    ELSE [const |-> FALSE, loc |-> -1]

Arrays(p) ==
    LET w == NormWeights(p.weights)
        y == [rows |-> p.dep.rows, k |-> Shape1(p.dep), src |-> SrcOf(p.dep)]
        x == Concat(p.exog, p.endog)
        z == Concat(p.exog, p.instr)
    IN  [w |-> w, y |-> y, x |-> x, z |-> z,
         wy |-> Weighted(y, w), wx |-> Weighted(x, w), wz |-> Weighted(z, w)]

\* [label + '_' + col for col in cols]
ParamNames(label, p) ==
    LET cols == p.exog.cols \o p.endog.cols
    IN  [j \in DOMAIN cols |-> label \o <<"_">> \o cols[j]]

\* Variant: the count of instruments is not compared with the regressors'
EqCheckNoInstrCount(p) ==
    LET nobs == Shape0(p.dep)
        kx == Shape1(p.exog) + Shape1(p.endog)
        kz == Shape1(p.exog) + Shape1(p.instr)
    IN  IF nobs <= kx THEN "fewer_obs"
        ELSE IF ~p.xfull THEN "x_rank"
        ELSE IF kz > nobs THEN "fewer_obs_instr"
        ELSE IF ~p.zfull THEN "z_rank"
        ELSE "ok"

\* The checks of one equation, in the order of the code; "ok" when all pass
EqCheck(p) ==
    LET nobs == Shape0(p.dep)
        kx == Shape1(p.exog) + Shape1(p.endog)
        kz == Shape1(p.exog) + Shape1(p.instr)
    IN  IF nobs <= kx THEN "fewer_obs"
        ELSE IF ~p.xfull THEN "x_rank"
        ELSE IF kx > kz THEN "few_instr"
        ELSE IF kz > nobs THEN "fewer_obs_instr"
        ELSE IF ~p.zfull THEN "z_rank"
        ELSE "ok"

\* self._common_exog
CommonExog(ps) ==
    /\ Cardinality({ps[i].id : i \in DOMAIN ps}) = 1
    /\ \A i \in DOMAIN ps : ps[i].weights.vals = ps[1].weights.vals

RECURSIVE Flatten(_)
Flatten(ss) == IF ss = <<>> THEN <<>> ELSE Head(ss) \o Flatten(Tail(ss))

NoError == [kind |-> "none", eq |-> <<>>]
Raise(kind, eq) == [kind |-> kind, eq |-> eq]

NoSigma == [src |-> "none"]
GivenSigma == [src |-> "given"]

NoModel == [cls |-> "none"]

\* The object a constructor leaves once every check has passed
ModelObject(cls, labels, ps, arr, sigma, rms) ==
    [cls |-> cls,
     eq_labels |-> labels,
     param_names |-> Flatten([i \in DOMAIN ps |-> ParamNames(labels[i], ps[i])]),
     dependent |-> [i \in DOMAIN ps |-> ps[i].dep],
     exog |-> [i \in DOMAIN ps |-> ps[i].exog],
     endog |-> [i \in DOMAIN ps |-> ps[i].endog],
     instr |-> [i \in DOMAIN ps |-> ps[i].instr],
     weights |-> [i \in DOMAIN ps |-> ps[i].weights],
     w |-> [i \in DOMAIN ps |-> arr[i].w],
     y |-> [i \in DOMAIN ps |-> arr[i].y],
     x |-> [i \in DOMAIN ps |-> arr[i].x],
     z |-> [i \in DOMAIN ps |-> arr[i].z],
     wy |-> [i \in DOMAIN ps |-> arr[i].wy],
     wx |-> [i \in DOMAIN ps |-> arr[i].wx],
     wz |-> [i \in DOMAIN ps |-> arr[i].wz],
     sigma |-> sigma,
     common_exog |-> CommonExog(ps),
     has_constant |-> [i \in DOMAIN ps |-> HasConstant(ps[i].exog, ps[i].endog).const],
     constant_loc |-> [i \in DOMAIN ps |-> HasConstant(ps[i].exog, ps[i].endog).loc],
     weight_type |-> <<>>,
     weight_est |-> "none",
     rms |-> rms]

\* The per-equation loop of _validate_data on the equations ps left by
\* _drop_missing, which emitted warned diagnostics
ValidateChecks(cls, eqs, labels, ps, warned, sigma, rms) ==
    LET bad == {i \in DOMAIN ps : EqCheck(ps[i]) # "ok"}
    IN  IF bad # {}
        THEN LET i == CHOOSE i \in bad : \A j \in bad : i <= j
             IN  [error |-> Raise(EqCheck(ps[i]), labels[i]), warned |-> warned,
                  obj |-> NoModel, eqs |-> eqs]
        ELSE [error |-> NoError, warned |-> warned, eqs |-> eqs,
              obj |-> ModelObject(cls, labels, ps, [i \in DOMAIN ps |-> Arrays(ps[i])],
                                  sigma, rms)]

\* Variant: the per-equation loop runs on the rows as they were given
ValidateRowsChecksRaw(cls, eqs, labels, raw, sigma, rms) ==
    LET badrows == {i \in DOMAIN raw : ~RowsAgree(raw[i])}
    IN  IF badrows # {}
        THEN LET i == CHOOSE i \in badrows : \A j \in badrows : i <= j
             IN  [error |-> Raise("rows", labels[i]), warned |-> 0, obj |-> NoModel,
                  eqs |-> eqs]
        ELSE ValidateChecks(cls, eqs, labels, raw,
                            MissingWarning(MissingMask(raw)), sigma, rms)

\* The row-count loop of _validate_data on the ingested equations raw, then
\* _drop_missing and the per-equation loop
ValidateRows(cls, eqs, labels, raw, sigma, rms) ==
    LET badrows == {i \in DOMAIN raw : ~RowsAgree(raw[i])}
    IN  IF badrows # {}
        THEN LET i == CHOOSE i \in badrows : \A j \in badrows : i <= j
             IN  [error |-> Raise("rows", labels[i]), warned |-> 0, obj |-> NoModel,
                  eqs |-> eqs]
        ELSE ValidateChecks(cls, eqs, labels, DropMissing(raw),
                            MissingWarning(MissingMask(raw)), sigma, rms)

\* _validate_data on self._equations (the equations in system order)
ValidateOrdered(cls, eqs, sigma, rms) ==
    IF \E i \in DOMAIN eqs : TupleTooShort(eqs[i][2])
    THEN [error |-> Raise("index", <<>>), warned |-> 0, obj |-> NoModel, eqs |-> eqs]
    ELSE ValidateRows(cls, eqs, [i \in DOMAIN eqs |-> eqs[i][1]],
                      [i \in DOMAIN eqs |-> ParseEq(eqs[i][2])], sigma, rms)

\* IV3SLS.__init__ followed by _validate_data.  Returns the exception raised
\* (or NoError), the number of diagnostics emitted, the object's fields, and
\* self._equations.
ValidateData(cls, eqs0, ordered, sigma, rms) ==
    ValidateOrdered(cls, ToOrderedDict(eqs0, ordered), sigma, rms)

-----------------------------------------------------------------------------
(* The three classes' constructors                                         *)

Robust == <<"r", "o", "b", "u", "s", "t">>
Unadjusted == <<"u", "n", "a", "d", "j", "u", "s", "t", "e", "d">>
Homoskedastic == <<"h", "o", "m", "o", "s", "k", "e", "d", "a", "s", "t", "i", "c">>
Heteroskedastic ==
    <<"h", "e", "t", "e", "r", "o", "s", "k", "e", "d", "a", "s", "t", "i", "c">>

\* SUR.__init__: a tuple (dependent, exog, weights) becomes
\* (dependent, exog, None, None, weights); any other tuple gets (None, None)
\* appended; a mapping is passed through as it is
SURReformat(e) ==
    IF e.form # "tuple" THEN e
    ELSE IF Len(e.items) = 3
         THEN [e EXCEPT !.items = <<e.items[1], e.items[2], NoneMat, NoneMat, e.items[3]>>]
         ELSE [e EXCEPT !.items = e.items \o <<NoneMat, NoneMat>>]

\* IVSystemGMM.__init__ after super().__init__ returned r: the weight_type
\* check; the other classes return what IV3SLS.__init__ left
WeightTypeCheck(cls, r, weight_type) ==
    IF cls # "IVSystemGMM" \/ r.error # NoError THEN r
    ELSE IF weight_type \notin {Robust, Unadjusted}
    THEN [error |-> Raise("weight_type", <<>>), warned |-> r.warned,
          obj |-> NoModel, eqs |-> r.eqs]
    ELSE [r EXCEPT !.obj.weight_type = weight_type,
                   !.obj.weight_est = IF weight_type = Robust
                                      THEN "HeteroskedasticWeightMatrix"
                                      ELSE "HomoskedasticWeightMatrix"]

\* cls(equations, sigma=sigma, weight_type=weight_type)
New(cls, eqs, ordered, sigma, weight_type, rms) ==
    WeightTypeCheck(cls,
        ValidateData(cls,
                     IF cls = "SUR"
                     THEN [i \in DOMAIN eqs |-> <<eqs[i][1], SURReformat(eqs[i][2])>>]
                     ELSE eqs,
                     ordered, sigma, rms),
        weight_type)

\* cls.multivariate_ls(dependent, exog, endog, instruments): one equation per
\* column of dependent, every equation holding the same exog, endog and
\* instruments objects; SUR.multivariate_ls passes (dependent, exog) only.
\* deps is the sequence of <<column name, that column>>.
MultivariateLS(cls, deps, exog, endog, instr, rms) ==
    LET eqs == [i \in DOMAIN deps |->
                  <<deps[i][1],
                    TupleEq(IF cls = "SUR" THEN <<deps[i][2], exog>>
                            ELSE <<deps[i][2], exog, endog, instr>>, TRUE, TRUE)>>]
    IN  New(cls, eqs, TRUE, NoSigma, Robust, rms)

\* IV3SLS.from_formula / SUR.from_formula with a mapping of formulas: parsed
\* is the sequence of <<key, [dependent, exog, endog, instruments]>> that
\* parse_formula yields, wts the weights found for each key (NoneMat if none)
FormulaEqs(parsed, wts) ==
    [i \in DOMAIN parsed |->
        <<parsed[i][1],
          DictEq(parsed[i][2].dependent, parsed[i][2].exog, parsed[i][2].endog,
                 parsed[i][2].instruments, wts[i],
                 {"endog", "instruments"}
                    \cup (IF wts[i] # NoneMat THEN {"weights"} ELSE {}),
                 TRUE, TRUE)>>]

\* IVSystemGMM.from_formula returns the second of two constructions, after the
\* diagnostics of both; the other classes return the first
FormulaModel(cls, first, second) ==
    IF cls # "IVSystemGMM" \/ first.error # NoError THEN first
    ELSE [second EXCEPT !.warned = first.warned + second.warned]

\* from_formula: IVSystemGMM.from_formula builds the model through the
\* inherited from_formula (no sigma) and then again from mod._equations with
\* the weight options
FromFormula(cls, parsed, wts, sigma, weight_type, rms) ==
    FormulaModel(cls,
        New(cls, FormulaEqs(parsed, wts), TRUE,
            IF cls = "IVSystemGMM" THEN NoSigma ELSE sigma, Robust, rms),
        New(cls, FormulaEqs(parsed, wts), TRUE, NoSigma, weight_type, rms))

-----------------------------------------------------------------------------
(* Inputs of construction                                                  *)

N == MaxRows

Fields == {"dependent", "exog", "endog", "instruments", "weights"}

LabelA == <<"a">>
LabelB == <<"b">>
LabelC == <<"c">>

\* j distinct column names starting with character c
ColNames(c, j) == [q \in 1..j |-> <<c>> \o [u \in 1..q |-> "i"]]

\* The parameter change of GLS / GMM step i on the system's data: a numerical
\* fact about the data, fixed when the data is
\* (large until some step, then zero)
RmsProfiles ==
    {[i \in 1..Max(1, MaxIterLimit) |-> IF i < c THEN MaxDelta ELSE 0]
       : c \in 1..(Max(1, MaxIterLimit) + 1)}
SlowProfile == [i \in 1..Max(1, MaxIterLimit) |-> MaxDelta]

\* The description of one equation's data: raw row counts, missing rows of
\* each field, column counts, rank facts, weights, and whether exog, endog
\* and instruments are objects shared with the other equations
V0 == [nexog |-> N, nendog |-> N, ninstr |-> N,
       null |-> [f \in Fields |-> {}],
       kexog |-> 1, kendog |-> 1, kinstr |-> 1,
       xfull |-> TRUE, zfull |-> TRUE, wvals |-> <<>>, shared |-> FALSE,
       const |-> FALSE]

NullIn(v, f, r) == [v EXCEPT !.null[f] = {r}]

Twos == [r \in 1..N |-> 2]
Units == [r \in 1..N |-> 1]
Ramp == [r \in 1..N |-> IF r = 1 THEN 3 ELSE 1]

DepMat(i, v) == Mat(N, <<<<"y">>>>, v.null["dependent"], 10 * i + 1, <<>>)
ExogMat(i, v) ==
    Mat(v.nexog, ColNames("x", v.kexog), v.null["exog"],
        IF v.shared THEN 2 ELSE 10 * i + 2,
        IF v.const THEN [r \in 1..v.nexog |-> 1] ELSE <<>>)
EndogMat(i, v) ==
    IF v.kendog = 0 THEN NoneMat
    ELSE Mat(v.nendog, ColNames("e", v.kendog), v.null["endog"],
             IF v.shared THEN 3 ELSE 10 * i + 3, <<>>)
InstrMat(i, v) ==
    IF v.kinstr = 0 THEN NoneMat
    ELSE Mat(v.ninstr, ColNames("z", v.kinstr), v.null["instruments"],
             IF v.shared THEN 4 ELSE 10 * i + 4, <<>>)
WeightMat(i, v) ==
    IF v.wvals = <<>> THEN NoneMat
    ELSE Mat(N, <<<<"w">>>>, v.null["weights"], 10 * i + 5, v.wvals)

MkTuple(i, v) ==
    TupleEq(<<DepMat(i, v), ExogMat(i, v), EndogMat(i, v), InstrMat(i, v)>>
              \o (IF v.wvals = <<>> THEN <<>> ELSE <<WeightMat(i, v)>>),
            v.xfull, v.zfull)

MkDict(i, v) ==
    DictEq(DepMat(i, v), ExogMat(i, v), EndogMat(i, v), InstrMat(i, v), WeightMat(i, v),
           (IF v.kendog > 0 THEN {"endog"} ELSE {})
             \cup (IF v.kinstr > 0 THEN {"instruments"} ELSE {})
             \cup (IF v.wvals # <<>> THEN {"weights"} ELSE {}),
           v.xfull, v.zfull)

\* (dependent, exog) or (dependent, exog, weights) as SUR documents it
MkSURTuple(i, v) ==
    TupleEq(<<DepMat(i, v), ExogMat(i, v)>>
              \o (IF v.wvals = <<>> THEN <<>> ELSE <<WeightMat(i, v)>>),
            v.xfull, v.zfull)

\* Equation "a": variations in dependent and weights, and in the checks
VariantsA ==
    {V0,
     NullIn(V0, "dependent", 1),
     NullIn([V0 EXCEPT !.wvals = Twos], "weights", 2),
     [V0 EXCEPT !.nexog = N + 1],
     [V0 EXCEPT !.kexog = N - 1],
     [V0 EXCEPT !.kexog = N - 2],
     [V0 EXCEPT !.xfull = FALSE],
     [V0 EXCEPT !.kinstr = 0],
     [V0 EXCEPT !.zfull = FALSE]}

\* Equation "b": variations in exog, endog and instruments, and in the checks
VariantsB ==
    {V0,
     NullIn(V0, "exog", 2),
     NullIn(V0, "endog", 1),
     NullIn(V0, "instruments", 3),
     [V0 EXCEPT !.ninstr = N - 1],
     [V0 EXCEPT !.nendog = N + 1],
     [V0 EXCEPT !.kinstr = N - 1],
     [V0 EXCEPT !.kinstr = N],
     [V0 EXCEPT !.xfull = FALSE],
     [V0 EXCEPT !.kexog = N - 1]}

\* Systems exercising ingestion and validation: b is inserted before a in a
\* plain mapping, so that the system order is the sorted one
ShapeInputs ==
    {[cls |-> "IV3SLS", eqs |-> <<<<LabelB, MkTuple(2, vb)>>, <<LabelA, MkDict(1, va)>>>>,
      ordered |-> FALSE, sigma |-> NoSigma, weight_type |-> Robust, rms |-> SlowProfile]
       : va \in VariantsA, vb \in VariantsB}

\* Systems exercising fit: common or separate regressors, with or without
\* endogenous regressors, a supplied sigma or none, every convergence profile
Shared == [V0 EXCEPT !.shared = TRUE]
Exogenous == [V0 EXCEPT !.kendog = 0, !.kinstr = 0]
SharedExogenous == [Exogenous EXCEPT !.shared = TRUE]
ConstantOnly == [Exogenous EXCEPT !.const = TRUE]

FitInputs ==
    {[cls |-> "IV3SLS", eqs |-> <<<<LabelA, MkTuple(1, V0)>>, <<LabelB, MkTuple(2, V0)>>>>,
      ordered |-> TRUE, sigma |-> NoSigma, weight_type |-> Robust, rms |-> rms]
       : rms \in RmsProfiles}
    \cup
    {[cls |-> "IV3SLS", eqs |-> <<<<LabelA, MkTuple(1, v)>>, <<LabelB, MkTuple(2, v)>>>>,
      ordered |-> TRUE, sigma |-> NoSigma, weight_type |-> Robust, rms |-> SlowProfile]
       : v \in {Shared, SharedExogenous}}
    \cup
    {[cls |-> "IV3SLS", eqs |-> <<<<LabelA, MkTuple(1, V0)>>, <<LabelB, MkTuple(2, V0)>>>>,
      ordered |-> TRUE, sigma |-> GivenSigma, weight_type |-> Robust, rms |-> SlowProfile]}
    \cup
    {[cls |-> "IV3SLS",
      eqs |-> <<<<LabelA, MkTuple(1, ConstantOnly)>>, <<LabelB, MkTuple(2, V0)>>>>,
      ordered |-> TRUE, sigma |-> NoSigma, weight_type |-> Robust, rms |-> SlowProfile]}
    \cup
    {[cls |-> "IV3SLS",
      eqs |-> <<<<LabelA, MkTuple(1, [V0 EXCEPT !.wvals = Ramp])>>,
                <<LabelB, MkTuple(2, [V0 EXCEPT !.wvals = Twos])>>>>,
      ordered |-> TRUE, sigma |-> NoSigma, weight_type |-> Robust, rms |-> SlowProfile]}
    \cup
    {[cls |-> "SUR", eqs |-> <<<<LabelA, MkSURTuple(1, v)>>, <<LabelB, MkSURTuple(2, v)>>>>,
      ordered |-> TRUE, sigma |-> NoSigma, weight_type |-> Robust, rms |-> SlowProfile]
       : v \in {Exogenous, SharedExogenous}}
    \cup
    {[cls |-> "IVSystemGMM", eqs |-> <<<<LabelA, MkTuple(1, V0)>>, <<LabelB, MkDict(2, V0)>>>>,
      ordered |-> TRUE, sigma |-> NoSigma, weight_type |-> Robust, rms |-> rms]
       : rms \in RmsProfiles}
    \cup
    {[cls |-> "IVSystemGMM", eqs |-> <<<<LabelA, MkTuple(1, V0)>>, <<LabelB, MkDict(2, V0)>>>>,
      ordered |-> TRUE, sigma |-> sw[1], weight_type |-> sw[2], rms |-> SlowProfile]
       : sw \in {<<GivenSigma, Unadjusted>>, <<NoSigma, Homoskedastic>>}}

\* Systems whose equations are given the same regressor objects, with weight
\* vectors that are equal, proportional or neither; and one in which only
\* two of three equations share their regressors
WeightInputs ==
    {[cls |-> "IV3SLS",
      eqs |-> <<<<LabelA, MkTuple(1, [Shared EXCEPT !.wvals = wa])>>,
                <<LabelB, MkTuple(2, [Shared EXCEPT !.wvals = wb])>>>>,
      ordered |-> TRUE, sigma |-> NoSigma, weight_type |-> Robust, rms |-> SlowProfile]
       : wa \in {Units, Twos, Ramp}, wb \in {Twos, Ramp}}
    \cup
    {[cls |-> "IV3SLS",
      eqs |-> <<<<LabelA, MkTuple(1, Shared)>>, <<LabelB, MkTuple(2, Shared)>>,
                <<LabelC, MkTuple(3, V0)>>>>,
      ordered |-> TRUE, sigma |-> NoSigma, weight_type |-> Robust, rms |-> SlowProfile]}

\* Distinct labels and column names that contain underscores: equation "a"
\* with the column "b_x", equation "a_b" with the column "x"
LabelAB == <<"a", "_", "b">>
UnderscoreInputs ==
    {[cls |-> "IV3SLS",
      eqs |-> <<<<LabelA, TupleEq(<<DepMat(1, V0),
                                    Mat(N, <<<<"b", "_", "x">>>>, {}, 12, <<>>),
                                    NoneMat, NoneMat>>, TRUE, TRUE)>>,
                <<LabelAB, TupleEq(<<DepMat(2, V0), Mat(N, <<<<"x">>>>, {}, 22, <<>>),
                                     NoneMat, NoneMat>>, TRUE, TRUE)>>>>,
      ordered |-> od, sigma |-> NoSigma, weight_type |-> Robust, rms |-> SlowProfile]
       : od \in BOOLEAN}

\* SUR systems whose second equation is given as SUR documents it, (dependent,
\* exog), or as IV3SLS takes it: a tuple of four or five elements, a mapping
\* with the keys 'endog' and 'instruments'
SURInputs ==
    {[cls |-> "SUR",
      eqs |-> <<<<LabelA, MkSURTuple(1, [Exogenous EXCEPT !.wvals = Twos])>>,
                <<LabelB, e>>>>,
      ordered |-> TRUE, sigma |-> NoSigma, weight_type |-> Robust, rms |-> SlowProfile]
       : e \in {MkSURTuple(2, Exogenous), MkTuple(2, V0), MkDict(2, V0),
                MkTuple(2, [V0 EXCEPT !.wvals = Ramp])}}

InitInputs ==
    ShapeInputs \cup FitInputs \cup WeightInputs \cup UnderscoreInputs \cup SURInputs

\* One system of each class, for a caller that keeps a results record
KeepInputs ==
    {[cls |-> "IV3SLS", eqs |-> <<<<LabelA, MkTuple(1, V0)>>, <<LabelB, MkTuple(2, V0)>>>>,
      ordered |-> TRUE, sigma |-> NoSigma, weight_type |-> Robust, rms |-> SlowProfile],
     [cls |-> "SUR",
      eqs |-> <<<<LabelA, MkSURTuple(1, SharedExogenous)>>,
                <<LabelB, MkSURTuple(2, SharedExogenous)>>>>,
      ordered |-> TRUE, sigma |-> NoSigma, weight_type |-> Robust, rms |-> SlowProfile],
     [cls |-> "IVSystemGMM",
      eqs |-> <<<<LabelA, MkTuple(1, V0)>>, <<LabelB, MkDict(2, V0)>>>>,
      ordered |-> TRUE, sigma |-> NoSigma, weight_type |-> Robust, rms |-> SlowProfile]}

Classes == {"IV3SLS", "SUR", "IVSystemGMM"}

\* Inputs of multivariate_ls and from_formula: a data set with or without a
\* missing row
RouteData == {Exogenous, NullIn(Exogenous, "exog", 2), NullIn(Exogenous, "dependent", 1)}

-----------------------------------------------------------------------------
(* Linear constraints (LinearConstraint of system/_utility.py)             *)

NoConstraint == [name |-> "none", q |-> "none", m |-> 0]

\* LinearConstraint(r, q=q, num_params=num_params, require_pandas=True): r has
\* m rows, ncols columns and the given rank.  It raises unless r has one
\* column per parameter and full row rank.
ConstraintValid(r, num_params) == r.ncols = num_params /\ r.rank = r.m

LinearConstraint(r, q) == [name |-> r.name, q |-> IF q = "none" THEN "zeros" ELSE q, m |-> r.m]

\* The constraint matrices offered to a system with np parameters
ConstraintInputs(np) ==
    {[r |-> [name |-> "R1", m |-> 1, ncols |-> np, rank |-> 1], q |-> "none"],
     [r |-> [name |-> "R2", m |-> 2, ncols |-> np, rank |-> 2], q |-> "q"],
     [r |-> [name |-> "R1", m |-> 1, ncols |-> np + 1, rank |-> 1], q |-> "none"],
     [r |-> [name |-> "R2", m |-> 2, ncols |-> np, rank |-> 1], q |-> "none"],
     [r |-> [name |-> "R2", m |-> np + 1, ncols |-> np, rank |-> np], q |-> "q"]}

-----------------------------------------------------------------------------
(* Estimation: the pieces of IV3SLS.fit                                    *)

Inf == 1000000      \* numpy.inf: above every tolerance

NoBeta == [solve |-> "none"]
Identity == [src |-> "eye", of |-> NoBeta, debiased |-> FALSE, diag |-> FALSE]

\* _construct_xhat: per equation, x itself when z equals x, else the
\* projection of x on z; and its square-root-weighted version
ConstructXhat(m) ==
    LET proj(i) == IF m.z[i] = m.x[i] THEN m.x[i] ELSE [proj |-> m.z[i], of |-> m.x[i]]
    IN  [xhat |-> [i \in DOMAIN m.x |-> proj(i)],
         wxhat |-> [i \in DOMAIN m.x |->
                       IF m.z[i] = m.x[i] THEN m.wx[i] ELSE Weighted(proj(i), m.w[i])]]

\* _multivariate_ls_fit: the stacked least-squares solve on self._wxhat and
\* self._wy, through T and a of self.constraints when a constraint is held
MultivariateLsFit(m, cache, cons) ==
    [solve |-> "ls", cons |-> cons, sigma |-> Identity, wxhat |-> cache.wxhat]

\* eps.T @ eps / nobs * self._sigma_scale(debiased), eps the residuals of beta
SigmaOf(beta, debiased) ==
    [src |-> "est", of |-> beta, debiased |-> debiased, diag |-> FALSE]

\* Variant: sigma is estimated from the residuals whether or not one was
\* supplied
GlsEstimateReestimates(m, cache, cons, beta, full_cov, debiased) ==
    LET sigma0 == SigmaOf(beta, debiased)
        sigma  == IF ~full_cov THEN [sigma0 EXCEPT !.diag = TRUE] ELSE sigma0
    IN  [beta |-> [solve |-> "gls", cons |-> cons, sigma |-> sigma, wxhat |-> cache.wxhat],
         sigma |-> sigma]

\* _gls_estimate: one GLS step from the residuals of beta
GlsEstimate(m, cache, cons, beta, full_cov, debiased) ==
    LET sigma0 == IF m.sigma = NoSigma THEN SigmaOf(beta, debiased)
                  ELSE [src |-> "given", of |-> NoBeta, debiased |-> FALSE, diag |-> FALSE]
        sigma  == IF ~full_cov THEN [sigma0 EXCEPT !.diag = TRUE] ELSE sigma0
    IN  [beta |-> [solve |-> "gls", cons |-> cons, sigma |-> sigma, wxhat |-> cache.wxhat],
         sigma |-> sigma]

\* sqrt(mean((beta_hist[-1] - beta_hist[-2]) ** 2)) at step i: zero when the
\* two estimates are the same computation, else what the data gives
RmsChange(m, b1, b0, i) ==
    IF b1 = b0 THEN 0
    ELSE m.rms[IF i \in DOMAIN m.rms THEN i ELSE Len(m.rms)]

\* Variant: the loop admits one step beyond iter_limit
RECURSIVE GlsLoopOffByOne(_, _, _, _, _)
GlsLoopOffByOne(m, cache, cons, o, st) ==
    IF ((st.iter_count <= o.iter_limit /\ o.iterate) \/ st.iter_count = 0)
         /\ st.delta >= o.tol
    THEN LET r == GlsEstimate(m, cache, cons, st.beta_hist[Len(st.beta_hist)],
                              o.full_cov, o.debiased)
             hist == Append(st.beta_hist, r.beta)
         IN  GlsLoopOffByOne(m, cache, cons, o,
                     [beta_hist |-> hist,
                      sigma |-> r.sigma,
                      delta |-> RmsChange(m, hist[Len(hist)], hist[Len(hist) - 1],
                                          st.iter_count + 1),
                      iter_count |-> st.iter_count + 1])
    ELSE st

\* Variant: the loop continues whether or not iterate is set
RECURSIVE GlsLoopIgnoresIterate(_, _, _, _, _)
GlsLoopIgnoresIterate(m, cache, cons, o, st) ==
    IF (st.iter_count < o.iter_limit \/ st.iter_count = 0) /\ st.delta >= o.tol
    THEN LET r == GlsEstimate(m, cache, cons, st.beta_hist[Len(st.beta_hist)],
                              o.full_cov, o.debiased)
             hist == Append(st.beta_hist, r.beta)
         IN  GlsLoopIgnoresIterate(m, cache, cons, o,
                     [beta_hist |-> hist,
                      sigma |-> r.sigma,
                      delta |-> RmsChange(m, hist[Len(hist)], hist[Len(hist) - 1],
                                          st.iter_count + 1),
                      iter_count |-> st.iter_count + 1])
    ELSE st

\* The GLS loop of fit
RECURSIVE GlsLoop(_, _, _, _, _)
GlsLoop(m, cache, cons, o, st) ==
    IF ((st.iter_count < o.iter_limit /\ o.iterate) \/ st.iter_count = 0)
         /\ st.delta >= o.tol
    THEN LET r == GlsEstimate(m, cache, cons, st.beta_hist[Len(st.beta_hist)],
                              o.full_cov, o.debiased)
             hist == Append(st.beta_hist, r.beta)
         IN  GlsLoop(m, cache, cons, o,
                     [beta_hist |-> hist,
                      sigma |-> r.sigma,
                      delta |-> RmsChange(m, hist[Len(hist)], hist[Len(hist) - 1],
                                          st.iter_count + 1),
                      iter_count |-> st.iter_count + 1])
    ELSE st

\* cov_type.lower() and its check; <<>> stands for the ValueError
CovTypes == {Unadjusted, Robust, Homoskedastic, Heteroskedastic}

\* Variant: the value is compared as it was passed
NormalizeCovTypeCaseSensitive(cov_type) ==
    IF cov_type \notin CovTypes THEN <<>>
    ELSE IF cov_type \in {Unadjusted, Homoskedastic} THEN Unadjusted ELSE Robust

NormalizeCovType(cov_type) ==
    LET c == Lower(cov_type)
    IN  IF c \notin CovTypes THEN <<>>
        ELSE IF c \in {Unadjusted, Homoskedastic} THEN Unadjusted ELSE Robust

\* Variant: a held constraint does not keep the default method off the OLS path
UsesOLSIgnoresConstraint(m, cons, method) ==
    (m.common_exog /\ method = "None") \/ method = "ols"

\* Which solve fit returns
UsesOLS(m, cons, method) ==
    (m.common_exog /\ method = "None" /\ cons = NoConstraint) \/ method = "ols"

\* The column offset of equation i in the stacked parameter vector
Offset(m, i) == SumOver([j \in DOMAIN m.x |-> m.x[j].k], 1 .. (i - 1))

\* beta[loc:loc + df] of the record's stacked params
Slice(loc, df) == [loc |-> loc, df |-> df]

\* The residual y - x @ b of equation i, y and x named by the model attribute
\* they are read from and b a slice of the final beta; scaled says whether
\* both were first weighted by sigma ** (-1/2)
Resid(y, x, i, b, scaled) == [y |-> y, x |-> x, eq |-> i, b |-> b, scaled |-> scaled]

\* The residuals of equation i that each path hands to _common_indiv_results
\* as wresid and resid: wy[i] - wx[i] @ b of _multivariate_ls_fit and of the
\* GMM loop, y[i] - x[i] @ b from self._y and self._x, and gls_eps
LsEps(m, i) == Resid("_wy", "_wx", i, Slice(Offset(m, i), m.x[i].k), FALSE)
PlainEps(m, i) == Resid("_y", "_x", i, Slice(Offset(m, i), m.x[i].k), FALSE)
GlsEps(m, i) == Resid("_wy", "_wx", i, Slice(Offset(m, i), m.x[i].k), TRUE)

\* _f_stat on df tested coefficients (the equation's, less its constant):
\* the invalid marker when the covariance block is singular; stat / df when
\* debiased, which is a ZeroDivisionError when df is 0
FStat(df, debiased, singular) ==
    IF singular THEN [kind |-> "invalid"]
    ELSE IF debiased /\ df = 0 THEN [kind |-> "ZeroDivisionError"]
    ELSE [kind |-> "wald", df |-> df, scaled |-> debiased]

\* Exact fractions <<numerator, denominator>>, the denominator positive
RatDiv(a, b) == <<a[1] * b[2], a[2] * b[1]>>
RatSub(a, b) == <<a[1] * b[2] - b[1] * a[2], a[2] * b[2]>>
RatLeq(a, b) == a[1] * b[2] <= b[1] * a[2]
RatEq(a, b) == a[1] * b[2] = b[1] * a[2]

\* Variant: the two degrees of freedom of the adjusted R2 are exchanged
IndivStatsSwapped(in) ==
    LET df_c == in.nobs - in.constant
        df_r == in.nobs - in.df_model
        rss  == <<in.resid_ss, 1>>
        tss  == <<in.total_ss, 1>>
    IN  [done |-> TRUE, resid_ss |-> in.resid_ss, total_ss |-> in.total_ss,
         nobs |-> in.nobs, df_model |-> in.df_model, has_constant |-> in.constant = 1,
         r2 |-> RatSub(<<1, 1>>, RatDiv(rss, tss)),
         r2a |-> RatSub(<<1, 1>>, RatDiv(RatDiv(rss, <<df_c, 1>>),
                                        RatDiv(tss, <<df_r, 1>>))),
         f_stat |-> FStat(in.df_model - in.constant, in.debiased, in.singular)]

\* The measures of fit and the F-statistic of _common_indiv_results, from one
\* equation's sums of squares, observation and regressor counts, constant
\* indicator, and whether its covariance block is singular
IndivStats(in) ==
    LET df_c == in.nobs - in.constant
        df_r == in.nobs - in.df_model
        rss  == <<in.resid_ss, 1>>
        tss  == <<in.total_ss, 1>>
    IN  [done |-> TRUE, resid_ss |-> in.resid_ss, total_ss |-> in.total_ss,
         nobs |-> in.nobs, df_model |-> in.df_model, has_constant |-> in.constant = 1,
         r2 |-> RatSub(<<1, 1>>, RatDiv(rss, tss)),
         r2a |-> RatSub(<<1, 1>>, RatDiv(RatDiv(rss, <<df_r, 1>>),
                                        RatDiv(tss, <<df_c, 1>>))),
         f_stat |-> FStat(in.df_model - in.constant, in.debiased, in.singular)]

\* The coefficients _f_stat tests in equation i: all but the constant
TestedDf(m, i) == m.x[i].k - (IF m.has_constant[i] THEN 1 ELSE 0)

\* An exception of _f_stat leaves fit before any record is returned
StatRaises(m, debiased) ==
    \E i \in DOMAIN m.x : FStat(TestedDf(m, i), debiased, FALSE).kind = "ZeroDivisionError"

\* _common_indiv_results for equation i.  The covariance blocks of the data
\* of this model are invertible.
CommonIndivResults(m, i, wresid, resid, method, iter_count, debiased) ==
    [eq_label |-> m.eq_labels[i],
     method |-> method,
     iter |-> iter_count,
     params |-> Slice(Offset(m, i), m.x[i].k),
     wresid |-> wresid,
     resid |-> resid,
     nobs |-> Cardinality(m.x[i].rows),
     df_model |-> m.x[i].k,
     has_constant |-> m.has_constant[i],
     f_stat |-> FStat(TestedDf(m, i), debiased, FALSE)]

\* cov_est(...).cov of either path
CovEst(cov_type, beta, debiased, gls) ==
    [est |-> cov_type, of |-> beta, debiased |-> debiased, gls |-> gls]

\* _multivariate_ls_finalize: the residuals of _multivariate_ls_fit serve as
\* both wresid and resid
MultivariateLsFinalize(m, cons, o, beta, sigma) ==
    [method |-> "OLS", iter |-> 0, cov_type |-> NormalizeCovType(o.cov_type),
     params |-> beta, sigma |-> sigma, constraints |-> cons, debiased |-> o.debiased,
     cov |-> CovEst(NormalizeCovType(o.cov_type), beta, o.debiased, FALSE),
     individual |-> [i \in DOMAIN m.x |->
                       CommonIndivResults(m, i, LsEps(m, i), LsEps(m, i), "OLS", 0,
                                          o.debiased)],
     steps |-> 0, opts |-> o]

\* Variant: the label follows the iterate option, not the steps made
GlsFinalizeLabelsIterate(m, cons, o, beta, sigma, iter_count, steps) ==
    [method |-> IF o.iterate THEN "Iterative GLS" ELSE "GLS",
     iter |-> iter_count, cov_type |-> NormalizeCovType(o.cov_type),
     params |-> beta, sigma |-> sigma, constraints |-> cons, debiased |-> o.debiased,
     cov |-> CovEst(NormalizeCovType(o.cov_type), beta, o.debiased, TRUE),
     individual |-> [i \in DOMAIN m.x |->
                       CommonIndivResults(m, i, GlsEps(m, i), PlainEps(m, i),
                                          IF o.iterate THEN "Iterative GLS" ELSE "GLS",
                                          iter_count, o.debiased)],
     steps |-> steps, opts |-> o]

\* _gls_finalize, with the residuals fit computes after the loop: gls_eps
\* from self._wy and self._wx, eps from self._y and self._x
GlsFinalize(m, cons, o, beta, sigma, iter_count, steps) ==
    [method |-> IF iter_count > 1 THEN "Iterative GLS" ELSE "GLS",
     iter |-> iter_count, cov_type |-> NormalizeCovType(o.cov_type),
     params |-> beta, sigma |-> sigma, constraints |-> cons, debiased |-> o.debiased,
     cov |-> CovEst(NormalizeCovType(o.cov_type), beta, o.debiased, TRUE),
     individual |-> [i \in DOMAIN m.x |->
                       CommonIndivResults(m, i, GlsEps(m, i), PlainEps(m, i),
                                          IF iter_count > 1 THEN "Iterative GLS" ELSE "GLS",
                                          iter_count, o.debiased)],
     steps |-> steps, opts |-> o]

\* The state the GLS loop of fit ends in
GlsEnd(m, cache, cons, o, beta, sigma) ==
    GlsLoop(m, cache, cons, o,
            [beta_hist |-> <<beta>>, sigma |-> sigma, delta |-> Inf, iter_count |-> 0])

\* The record of a fit on the GLS path; beta_hist, fit's list of the
\* estimates of every step, is kept beside it
GlsPath(m, cache, cons, o, st) ==
    GlsFinalize(m, cons, o, st.beta_hist[Len(st.beta_hist)], st.sigma,
                st.iter_count, Len(st.beta_hist) - 1)
      @@ [beta_hist |-> st.beta_hist]

LsPath(m, cache, cons, o, beta) ==
    IF UsesOLS(m, cons, o.method)
    THEN MultivariateLsFinalize(m, cons, o, beta, SigmaOf(beta, o.debiased))
    ELSE GlsPath(m, cache, cons, o,
                 GlsEnd(m, cache, cons, o, beta, SigmaOf(beta, o.debiased)))

\* IV3SLS.fit after the cov_type check: the results record it builds
FitResults(m, cache, cons, o) == LsPath(m, cache, cons, o, MultivariateLsFit(m, cache, cons))

-----------------------------------------------------------------------------
(* Estimation: the pieces of IVSystemGMM.fit                               *)

\* _blocked_gmm(wx, wy, wz, w=w): the solve uses no constraint
BlockedGmm(w) == [solve |-> "gmm", cons |-> NoConstraint, w |-> w, wxhat |-> <<>>]

\* self._weight_est.sigma(eps, wx) if self._sigma is None else self._sigma,
\* eps the residuals of beta
GmmSigma(m, beta) ==
    IF m.sigma = NoSigma
    THEN [src |-> "weight_est", of |-> beta, debiased |-> FALSE, diag |-> FALSE]
    ELSE [src |-> "given", of |-> NoBeta, debiased |-> FALSE, diag |-> FALSE]

NoVinv == [src |-> "none"]

\* delta.T @ vinv @ delta at re-weighted solve i
GmmNorm(m, beta_last, beta, i) ==
    IF beta_last = beta THEN 0
    ELSE m.rms[IF i \in DOMAIN m.rms THEN i ELSE Len(m.rms)]

\* '{0}-Step GMM'.format(iter_count), 'Iterative GMM' above two
GmmMethod(iter_count) ==
    IF iter_count > 2 THEN "Iterative GMM"
    ELSE IF iter_count = 2 THEN "2-Step GMM"
    ELSE IF iter_count = 1 THEN "1-Step GMM"
    ELSE "0-Step GMM"

\* Variant: v is computed again in every re-weighted iteration
RECURSIVE GmmLoopRecomputesV(_, _, _)
GmmLoopRecomputesV(m, o, st) ==
    IF st.iters < o.iter_limit /\ st.norm > o.tol
    THEN LET sigma == GmmSigma(m, st.beta)
             w     == [src |-> "weight_matrix", of |-> st.beta, sigma |-> sigma]
             beta  == BlockedGmm(w)
         IN  GmmLoopRecomputesV(m, o,
                     [beta |-> beta, beta_last |-> beta, sigma |-> sigma, w |-> w,
                      vinv |-> [src |-> "inv", w |-> w],
                      vcount |-> st.vcount + 1,
                      norm |-> GmmNorm(m, st.beta_last, beta, st.iters),
                      solves |-> st.solves + 1,
                      iters |-> st.iters + 1])
    ELSE st

\* The re-weighting loop of IVSystemGMM.fit.  vcount counts the evaluations
\* of v = (xpz @ winv @ xpz.T) / nobs, norm is the last value of the norm.
RECURSIVE GmmLoop(_, _, _)
GmmLoop(m, o, st) ==
    IF st.iters < o.iter_limit /\ st.norm > o.tol
    THEN LET sigma == GmmSigma(m, st.beta)
             w     == [src |-> "weight_matrix", of |-> st.beta, sigma |-> sigma]
             beta  == BlockedGmm(w)
         IN  GmmLoop(m, o,
                     [beta |-> beta, beta_last |-> beta, sigma |-> sigma, w |-> w,
                      vinv |-> IF st.vinv = NoVinv THEN [src |-> "inv", w |-> w]
                               ELSE st.vinv,
                      vcount |-> IF st.vinv = NoVinv THEN st.vcount + 1 ELSE st.vcount,
                      norm |-> GmmNorm(m, st.beta_last, beta, st.iters),
                      solves |-> st.solves + 1,
                      iters |-> st.iters + 1])
    ELSE st

\* _finalize_results, with the residuals fit computes after the loop: weps
\* from wy and wx, eps from self._y and self._x
FinalizeResults(m, cons, o, st, iters) ==
    [method |-> GmmMethod(iters), iter |-> iters,
     cov_type |-> NormalizeCovType(o.cov_type), params |-> st.beta,
     sigma |-> st.sigma, constraints |-> cons, debiased |-> o.debiased,
     cov |-> CovEst(NormalizeCovType(o.cov_type), st.beta, o.debiased, FALSE),
     individual |-> [i \in DOMAIN m.x |->
                       CommonIndivResults(m, i, LsEps(m, i), PlainEps(m, i),
                                          GmmMethod(iters), iters, o.debiased)],
     steps |-> st.solves, vinv |-> st.vinv, vcount |-> st.vcount, norm |-> st.norm,
     wmat |-> st.w, opts |-> o]

\* IVSystemGMM.fit after the cov_type check: the results record it builds
GmmFitResults(m, cons, o) ==
    LET w0   == IF o.initial_weight = "None"
                THEN [src |-> "zz", of |-> NoBeta, sigma |-> Identity]
                ELSE [src |-> "initial_weight", of |-> NoBeta, sigma |-> Identity]
        beta == BlockedGmm(w0)
        st   == GmmLoop(m, o, [beta |-> beta, beta_last |-> beta,
                               sigma |-> GmmSigma(m, beta), w |-> w0, vinv |-> NoVinv,
                               vcount |-> 0,
                               norm |-> 10 * o.tol + 1, solves |-> 1, iters |-> 1])
    IN  FinalizeResults(m, cons, o, st, st.iters + 1)

-----------------------------------------------------------------------------
(* Options passed to fit                                                   *)

UpperRobust == <<"R", "O", "B", "U", "S", "T">>
MixedUnadjusted == <<"U", "n", "a", "d", "j", "u", "s", "t", "e", "d">>
MixedHeteroskedastic ==
    <<"H", "e", "t", "e", "r", "o", "S", "k", "e", "d", "a", "s", "t", "i", "c">>
Kernel == <<"k", "e", "r", "n", "e", "l">>

CovTypeInputs ==
    {Robust, Unadjusted, Homoskedastic, Heteroskedastic, UpperRobust, MixedUnadjusted,
     MixedHeteroskedastic, Kernel}

DefaultOptions ==
    [method |-> "None", full_cov |-> TRUE, iterate |-> FALSE, iter_limit |-> MaxIterLimit,
     tol |-> MaxTol, cov_type |-> Robust, debiased |-> FALSE]

\* The options vary in the loop of the GLS path, in the method, in the
\* covariance type, or in the covariance options
FitOptions ==
    {[DefaultOptions EXCEPT !.method = "gls", !.iterate = it, !.iter_limit = il, !.tol = tl]
       : it \in BOOLEAN, il \in 0..MaxIterLimit, tl \in 0..MaxTol}
    \cup
    {[DefaultOptions EXCEPT !.method = me, !.iterate = it]
       : me \in {"None", "ols", "auto"}, it \in BOOLEAN}
    \cup
    {[DefaultOptions EXCEPT !.cov_type = ct] : ct \in CovTypeInputs}
    \cup
    {[DefaultOptions EXCEPT !.method = "gls", !.iterate = it, !.debiased = db, !.full_cov = fc]
       : it \in BOOLEAN, db \in BOOLEAN, fc \in BOOLEAN}

GmmDefaultOptions ==
    [iter_limit |-> 2, tol |-> MaxTol, initial_weight |-> "None", cov_type |-> Robust,
     debiased |-> FALSE]

GmmOptions ==
    {[GmmDefaultOptions EXCEPT !.iter_limit = il, !.tol = tl]
       : il \in 0..(MaxIterLimit + 1), tl \in 0..MaxTol}
    \cup
    {[GmmDefaultOptions EXCEPT !.cov_type = ct] : ct \in CovTypeInputs}
    \cup
    {[GmmDefaultOptions EXCEPT !.initial_weight = "W0"],
     [GmmDefaultOptions EXCEPT !.debiased = TRUE]}

-----------------------------------------------------------------------------
(* The stacked least-squares solve on values: two equations of one         *)
(* regressor each, every array a column of SolveRows integers              *)

RatMul(a, b) == <<a[1] * b[1], a[2] * b[2]>>

\* u.T @ v of two columns
Dot(u, v) == SumOver([r \in 1..SolveRows |-> u[r] * v[r]], 1..SolveRows)

\* eye(k)
Eye(k) == [i \in 1..k |-> [j \in 1..k |-> IF i = j THEN 1 ELSE 0]]

\* blocked_inner_prod(x, s): block (i, j) of the product is s[i, j] times
\* x[i].T @ x[j]
BlockedInnerProd(x, s) ==
    [i \in DOMAIN x |-> [j \in DOMAIN x |-> s[i][j] * Dot(x[i], x[j])]]

\* solve(a, b) of a system of two equations, by Cramer's rule: each unknown
\* as the fraction <<numerator, determinant>>
Solve(a, b) ==
    LET det == a[1][1] * a[2][2] - a[1][2] * a[2][1]
    IN  <<<<b[1] * a[2][2] - a[1][2] * b[2], det>>,
          <<a[1][1] * b[2] - b[1] * a[2][1], det>>>>

\* Variant: the cross products of the equations enter the normal equations
MultivariateLsValuesCoupled(d) ==
    LET xpx  == BlockedInnerProd(d.wxhat, [i \in DOMAIN d.wxhat |-> [j \in DOMAIN d.wxhat |-> 1]])
        xpy  == [i \in DOMAIN d.wxhat |-> Dot(d.wxhat[i], d.wy[i])]
        beta == Solve(xpx, xpy)
    IN  [done |-> TRUE, wxhat |-> d.wxhat, wx |-> d.wx, wy |-> d.wy,
         beta |-> beta,
         eps |-> [i \in DOMAIN d.wx |->
                    [r \in 1..SolveRows |->
                       RatSub(<<d.wy[i][r], 1>>, RatMul(<<d.wx[i][r], 1>>, beta[i]))]]]

\* _multivariate_ls_fit without constraints, on the arrays d.wxhat, d.wx and
\* d.wy of the two equations: beta, and eps equation by equation
MultivariateLsValues(d) ==
    LET xpx  == BlockedInnerProd(d.wxhat, Eye(Len(d.wxhat)))
        xpy  == [i \in DOMAIN d.wxhat |-> Dot(d.wxhat[i], d.wy[i])]
        beta == Solve(xpx, xpy)
    IN  [done |-> TRUE, wxhat |-> d.wxhat, wx |-> d.wx, wy |-> d.wy,
         beta |-> beta,
         eps |-> [i \in DOMAIN d.wx |->
                    [r \in 1..SolveRows |->
                       RatSub(<<d.wy[i][r], 1>>, RatMul(<<d.wx[i][r], 1>>, beta[i]))]]]

-----------------------------------------------------------------------------
(* The state machine                                                       *)

NoCache == [xhat |-> <<>>, wxhat |-> <<>>]
NoResults == [method |-> "none"]
NoStats == [done |-> FALSE]
NoStacked == [done |-> FALSE]
NotAsked == [ordered |-> TRUE, labels |-> <<>>, cls |-> "none", weight_type |-> <<>>]

\* A results record in the caller's hands.  results['constraints'] is a
\* reference to the LinearConstraint object the model held when fit ran:
\* object is what that object holds now, held whether the model still holds
\* that very object.
NoKept == [held |-> FALSE]
KeptRecord(r, cons) == [record |-> r, object |-> cons, held |-> cons # NoConstraint]

\* self._constraints is bound to another object, or to None
Released(k) == [k EXCEPT !.held = FALSE]

Init ==
    /\ phase = "new"
    /\ mod = NoModel
    /\ constraints = NoConstraint
    /\ xhat = NoCache
    /\ results = NoResults
    /\ warnings = 0
    /\ error = NoError
    /\ route = "none"
    /\ given = <<>>
    /\ asked = NotAsked
    /\ kept = NoKept
    /\ stats = NoStats
    /\ stacked = NoStacked

\* The caller's view of a construction call that returned or raised
Constructed(r, call) ==
    /\ phase' = IF r.error = NoError THEN "ready" ELSE "failed"
    /\ mod' = r.obj
    /\ constraints' = NoConstraint
    /\ xhat' = NoCache
    /\ results' = NoResults
    /\ warnings' = r.warned
    /\ error' = r.error
    /\ route' = call
    /\ given' = r.eqs
    /\ UNCHANGED <<kept, stats, stacked>>

\* IV3SLS(...), SUR(...), IVSystemGMM(...) on one of the inputs I
BuildInit(I) ==
    /\ phase = "new"
    /\ \E inp \in I :
          /\ Constructed(New(inp.cls, inp.eqs, inp.ordered, inp.sigma, inp.weight_type,
                             inp.rms), "init")
          /\ asked' = [ordered |-> inp.ordered,
                       labels |-> [i \in DOMAIN inp.eqs |-> inp.eqs[i][1]],
                       cls |-> inp.cls, weight_type |-> inp.weight_type]

\* cls.multivariate_ls(...)
BuildMultivariateLS ==
    /\ phase = "new"
    /\ \E cls \in Classes, v \in RouteData :
          /\ Constructed(MultivariateLS(cls,
                            <<<<LabelA, DepMat(1, v)>>, <<LabelB, DepMat(2, V0)>>>>,
                            ExogMat(1, v), EndogMat(1, v), InstrMat(1, v), SlowProfile),
                         "multivariate_ls")
          /\ asked' = [ordered |-> TRUE, labels |-> <<LabelA, LabelB>>,
                       cls |-> cls, weight_type |-> Robust]

\* The formulas of a mapping in the order the mapping iterates them, parsed
ParsedFormulas(first, v) ==
    LET parsed(i, u) == [dependent |-> DepMat(i, u), exog |-> ExogMat(i, u),
                         endog |-> EndogMat(i, u), instruments |-> InstrMat(i, u)]
    IN  IF first = LabelA
        THEN <<<<LabelA, parsed(1, v)>>, <<LabelB, parsed(2, Exogenous)>>>>
        ELSE <<<<LabelB, parsed(2, Exogenous)>>, <<LabelA, parsed(1, v)>>>>

\* cls.from_formula(formula, data, ...) with a mapping of formulas, an
\* OrderedDict or a plain dict, in either insertion order
BuildFromFormula ==
    /\ phase = "new"
    /\ \E cls \in Classes, v \in RouteData, wt \in {Robust, Homoskedastic, Heteroskedastic},
          first \in {LabelA, LabelB}, od \in BOOLEAN :
          /\ Constructed(FromFormula(cls, ParsedFormulas(first, v),
                                     <<NoneMat, NoneMat>>, NoSigma, wt, SlowProfile),
                         "from_formula")
          /\ asked' = [ordered |-> od,
                       labels |-> IF first = LabelA THEN <<LabelA, LabelB>>
                                  ELSE <<LabelB, LabelA>>,
                       cls |-> cls, weight_type |-> wt]

\* Variant: the constraint is stored before it is validated
AddConstraintsUnchecked ==
    /\ phase = "ready"
    /\ \E c \in ConstraintInputs(Len(mod.param_names)) :
          /\ constraints' = LinearConstraint(c.r, c.q)
          /\ error' = IF ConstraintValid(c.r, Len(mod.param_names)) THEN NoError
                       ELSE Raise("constraint", <<>>)
    /\ kept' = Released(kept)
    /\ UNCHANGED <<phase, mod, xhat, results, warnings, route, given, asked, stats, stacked>>

\* Variant: the constraint object the model holds is rewritten in place
AddConstraintsInPlace ==
    /\ phase = "ready"
    /\ \E c \in ConstraintInputs(Len(mod.param_names)) :
          IF ConstraintValid(c.r, Len(mod.param_names))
          THEN /\ constraints' = LinearConstraint(c.r, c.q)
               /\ kept' = IF kept.held THEN [kept EXCEPT !.object = constraints']
                          ELSE kept
               /\ error' = NoError
          ELSE /\ constraints' = constraints
               /\ kept' = kept
               /\ error' = Raise("constraint", <<>>)
    /\ UNCHANGED <<phase, mod, xhat, results, warnings, route, given, asked, stats, stacked>>

\* add_constraints(r, q): the constraint is replaced only if LinearConstraint
\* returns
AddConstraints ==
    /\ phase = "ready"
    /\ \E c \in ConstraintInputs(Len(mod.param_names)) :
          IF ConstraintValid(c.r, Len(mod.param_names))
          THEN /\ constraints' = LinearConstraint(c.r, c.q)
               /\ kept' = Released(kept)
               /\ error' = NoError
          ELSE /\ constraints' = constraints
               /\ kept' = kept
               /\ error' = Raise("constraint", <<>>)
    /\ UNCHANGED <<phase, mod, xhat, results, warnings, route, given, asked, stats, stacked>>

\* reset_constraints()
ResetConstraints ==
    /\ phase = "ready"
    /\ constraints' = NoConstraint
    /\ kept' = Released(kept)
    /\ error' = NoError
    /\ UNCHANGED <<phase, mod, xhat, results, warnings, route, given, asked, stats, stacked>>

\* Variant: the estimated covariance is kept on the model as its sigma
FitStoresSigma(O) ==
    /\ phase = "ready"
    /\ mod.cls \in {"IV3SLS", "SUR"}
    /\ \E o \in O :
          IF NormalizeCovType(o.cov_type) = <<>>
          THEN /\ error' = Raise("cov_type", Lower(o.cov_type))
               /\ results' = NoResults
               /\ xhat' = xhat
               /\ mod' = mod
          ELSE IF StatRaises(mod, o.debiased)
          THEN /\ error' = Raise("zero_division", <<>>)
               /\ results' = NoResults
               /\ xhat' = ConstructXhat(mod)
               /\ mod' = mod
          ELSE /\ error' = NoError
               /\ xhat' = ConstructXhat(mod)
               /\ results' = FitResults(mod, xhat', constraints, o)
               /\ mod' = [mod EXCEPT !.sigma = GivenSigma]
    /\ UNCHANGED <<phase, constraints, warnings, route, given, asked, kept, stats, stacked>>

\* The body of IV3SLS.fit / SUR.fit with one of the options O
FitCall(O) ==
    /\ phase = "ready"
    /\ mod.cls \in {"IV3SLS", "SUR"}
    /\ \E o \in O :
          IF NormalizeCovType(o.cov_type) = <<>>
          THEN /\ error' = Raise("cov_type", Lower(o.cov_type))
               /\ results' = NoResults
               /\ xhat' = xhat
          ELSE IF StatRaises(mod, o.debiased)
          THEN /\ error' = Raise("zero_division", <<>>)
               /\ results' = NoResults
               /\ xhat' = ConstructXhat(mod)
          ELSE /\ error' = NoError
               /\ xhat' = ConstructXhat(mod)
               /\ results' = FitResults(mod, xhat', constraints, o)
    /\ UNCHANGED <<phase, mod, constraints, warnings, route, given, asked, stats, stacked>>

\* The body of IVSystemGMM.fit with one of the options O
GmmFitCall(O) ==
    /\ phase = "ready"
    /\ mod.cls = "IVSystemGMM"
    /\ \E o \in O :
          IF NormalizeCovType(o.cov_type) = <<>>
          THEN /\ error' = Raise("cov_type", Lower(o.cov_type))
               /\ results' = NoResults
          ELSE IF StatRaises(mod, o.debiased)
          THEN /\ error' = Raise("zero_division", <<>>)
               /\ results' = NoResults
          ELSE /\ error' = NoError
               /\ results' = GmmFitResults(mod, constraints, o)
    /\ UNCHANGED <<phase, mod, constraints, xhat, warnings, route, given, asked, stats, stacked>>

\* A fit call whose record replaces the one of the call before
Fit(O) == FitCall(O) /\ UNCHANGED kept
GmmFit(O) == GmmFitCall(O) /\ UNCHANGED kept

\* A fit call whose record the caller keeps
KeepFit(O) ==
    /\ kept = NoKept
    /\ FitCall(O)
    /\ results' # NoResults
    /\ kept' = KeptRecord(results', constraints)
KeepGmmFit(O) ==
    /\ kept = NoKept
    /\ GmmFitCall(O)
    /\ results' # NoResults
    /\ kept' = KeptRecord(results', constraints)

\* The life of one model built by a constructor
Next ==
    \/ BuildInit(FitInputs)
    \/ AddConstraints
    \/ ResetConstraints
    \/ Fit(FitOptions)
    \/ GmmFit(GmmOptions)

Spec == Init /\ [][Next]_vars

\* Every way of building a model, on every input, followed by default fits
NextBuild ==
    \/ BuildInit(InitInputs)
    \/ BuildMultivariateLS
    \/ BuildFromFormula
    \/ AddConstraints
    \/ ResetConstraints
    \/ Fit({DefaultOptions})
    \/ GmmFit({GmmDefaultOptions})

SpecBuild == Init /\ [][NextBuild]_vars

\* One equation's summary statistics on every input within the bounds: the
\* sums of squares a fit can hand over (resid_ss >= 0, total_ss > 0) and the
\* shapes construction admits (nobs > df_model >= 1)
StatsInputs ==
    {[done |-> FALSE, resid_ss |-> rss, total_ss |-> tss, nobs |-> n, df_model |-> df,
      constant |-> c, debiased |-> db, singular |-> sg]
       : rss \in 0..MaxSS, tss \in 1..MaxSS, n \in 2..MaxRows, df \in 1..MaxRows,
         c \in 0..1, db \in BOOLEAN, sg \in BOOLEAN}

InitStats ==
    /\ phase = "new"
    /\ mod = NoModel
    /\ constraints = NoConstraint
    /\ xhat = NoCache
    /\ results = NoResults
    /\ warnings = 0
    /\ error = NoError
    /\ route = "none"
    /\ given = <<>>
    /\ asked = NotAsked
    /\ kept = NoKept
    /\ stats \in {in \in StatsInputs : in.nobs > in.df_model}
    /\ stacked = NoStacked

ComputeStats ==
    /\ ~stats.done
    /\ stats' = IndivStats(stats)
    /\ UNCHANGED <<phase, mod, constraints, xhat, results, warnings, error, route, given,
                   asked, kept, stacked>>

SpecStats == InitStats /\ [][ComputeStats]_vars

\* The stacked solve on every system within the bounds: projected regressors
\* of full rank, the regressors themselves equal to them (no instruments) or
\* not, any dependent in the first equation and a flat one in the second
SolveInputs ==
    LET Columns == [1..SolveRows -> 0..MaxVal]
        Shifted(u) == [r \in 1..SolveRows |-> IF r = 1 THEN u[r] + 1 ELSE u[r]]
    IN
    {[done |-> FALSE, wxhat |-> <<h1, h2>>,
      wx |-> <<IF endo THEN Shifted(h1) ELSE h1, h2>>, wy |-> <<y1, y2>>]
       : h1 \in {h \in Columns : Dot(h, h) > 0},
         h2 \in {h \in Columns : Dot(h, h) > 0},
         endo \in BOOLEAN,
         y1 \in Columns,
         y2 \in {[r \in 1..SolveRows |-> 0], [r \in 1..SolveRows |-> 1]}}

InitSolve ==
    /\ phase = "new"
    /\ mod = NoModel
    /\ constraints = NoConstraint
    /\ xhat = NoCache
    /\ results = NoResults
    /\ warnings = 0
    /\ error = NoError
    /\ route = "none"
    /\ given = <<>>
    /\ asked = NotAsked
    /\ kept = NoKept
    /\ stats = NoStats
    /\ stacked \in SolveInputs

SolveStacked ==
    /\ ~stacked.done
    /\ stacked' = MultivariateLsValues(stacked)
    /\ UNCHANGED <<phase, mod, constraints, xhat, results, warnings, error, route, given,
                   asked, kept, stats>>

SpecSolve == InitSolve /\ [][SolveStacked]_vars

\* A caller that keeps one results record while the model is used further
KeepOptions ==
    {[DefaultOptions EXCEPT !.method = m] : m \in {"None", "gls"}}

NextKeep ==
    \/ BuildInit(KeepInputs)
    \/ AddConstraints
    \/ ResetConstraints
    \/ Fit(KeepOptions)
    \/ GmmFit({GmmDefaultOptions})
    \/ KeepFit(KeepOptions)
    \/ KeepGmmFit({GmmDefaultOptions})

SpecKeep == Init /\ [][NextKeep]_vars

\* Systems built with or without a residual covariance, fitted with every
\* combination of the options of the GLS loop
SigmaInputs ==
    {[cls |-> "IV3SLS", eqs |-> <<<<LabelA, MkTuple(1, V0)>>, <<LabelB, MkTuple(2, V0)>>>>,
      ordered |-> TRUE, sigma |-> sg, weight_type |-> Robust, rms |-> rms]
       : sg \in {GivenSigma, NoSigma}, rms \in RmsProfiles}
    \cup
    {[cls |-> "SUR",
      eqs |-> <<<<LabelA, MkSURTuple(1, SharedExogenous)>>,
                <<LabelB, MkSURTuple(2, SharedExogenous)>>>>,
      ordered |-> TRUE, sigma |-> GivenSigma, weight_type |-> Robust, rms |-> SlowProfile]}

SigmaOptions ==
    {[DefaultOptions EXCEPT !.method = me, !.iterate = it, !.iter_limit = il, !.tol = tl,
                            !.full_cov = fc]
       : me \in {"None", "gls"}, it \in BOOLEAN, il \in 0..(MaxIterLimit + 1),
         tl \in 0..MaxTol, fc \in BOOLEAN}

NextSigma ==
    \/ BuildInit(SigmaInputs)
    \/ Fit(SigmaOptions)

SpecSigma == Init /\ [][NextSigma]_vars

-----------------------------------------------------------------------------
(* Properties of fit, checked under Spec                                   *)

FittedLS == results.method # "none" /\ mod.cls \in {"IV3SLS", "SUR"}
FittedGLS == FittedLS /\ results.method # "OLS"

\* C1: an IV3SLS/SUR fit returns the single-solve OLS result (method 'OLS',
\* no GLS step) exactly when method is 'ols', or method is left at its
\* default, the common-exogenous flag is true and no constraint is held; in
\* every other case at least one GLS step runs.
C1_OlsPathIff ==
    FittedLS =>
      LET o   == results.opts
          ols == \/ o.method = "ols"
                 \/ /\ o.method = "None"
                    /\ mod.common_exog
                    /\ results.constraints = NoConstraint
      IN  /\ ols => /\ results.method = "OLS"
                    /\ results.steps = 0
                    /\ results.params.solve = "ls"
          /\ ~ols => /\ results.method \in {"GLS", "Iterative GLS"}
                     /\ results.steps >= 1
                     /\ results.params.solve = "gls"

\* method='ols' forced the OLS path on differing regressors under a constraint
C1_Witness ==
    /\ FittedLS
    /\ results.opts.method = "ols"
    /\ ~mod.common_exog
    /\ results.constraints # NoConstraint
    /\ results.method = "OLS"

\* C2 as stated: on the GLS path the number of GLS steps performed (the
\* reported iteration count) never exceeds iter_limit.
C2_StepsWithinIterLimit ==
    FittedGLS => /\ results.iter = results.steps
                 /\ results.steps <= results.opts.iter_limit

\* C2 amended: on the GLS path the loop terminates and the number of GLS
\* steps performed (the reported iteration count) never exceeds the larger of
\* iter_limit and one.
C2_StepsWithinIterLimitOrOne ==
    FittedGLS => /\ results.iter = results.steps
                 /\ results.steps <= Max(results.opts.iter_limit, 1)

\* an iterated fit that used every step iter_limit allows
C2_Witness ==
    /\ FittedGLS
    /\ results.opts.iterate
    /\ results.opts.iter_limit > 1
    /\ results.steps = results.opts.iter_limit

\* C3: on the GLS path with iterate=False exactly one GLS step is performed
\* after the initial OLS solve, whatever iter_limit and tol, and when no sigma
\* was supplied that step uses the covariance estimated from the OLS residuals.
C3_OneStepWithoutIterate ==
    (FittedGLS /\ ~results.opts.iterate) =>
      /\ results.steps = 1
      /\ results.iter = 1
      /\ results.method = "GLS"
      /\ mod.sigma = NoSigma =>
           /\ results.params.sigma.src = "est"
           /\ results.params.sigma.of.solve = "ls"
           /\ results.params.sigma.of.sigma = Identity

\* a one-shot fit with iter_limit 0 and a positive tol took its single step
C3_Witness ==
    /\ FittedGLS
    /\ ~results.opts.iterate
    /\ results.opts.iter_limit = 0
    /\ results.opts.tol > 0
    /\ mod.sigma = NoSigma
    /\ results.steps = 1

\* C4: whenever a valid constraint is held, every fit of every estimator
\* class computes the returned parameters through the constrained
\* parameterization of that constraint.
C4_ConstrainedParams ==
    (results.method # "none" /\ results.constraints # NoConstraint) =>
      results.params.cons = results.constraints

\* The constraints that LinearConstraint accepts for the model
C5_Accepted ==
    {LinearConstraint(c.r, c.q) :
       c \in {d \in ConstraintInputs(Len(mod.param_names)) :
                d.r.ncols = Len(mod.param_names) /\ d.r.rank = d.r.m}}

C6_CovType ==
    /\ [](results.method # "none" =>
            LET c == Lower(results.opts.cov_type)
            IN  /\ c \in {Unadjusted, Homoskedastic, Robust, Heteroskedastic}
                /\ results.cov_type = IF c \in {Unadjusted, Homoskedastic}
                                      THEN Unadjusted ELSE Robust)
    /\ [](error.kind = "cov_type" =>
            /\ Lower(error.eq) \notin {Unadjusted, Homoskedastic, Robust, Heteroskedastic}
            /\ results = NoResults)
    /\ [][error'.kind = "cov_type" => xhat' = xhat /\ results' = NoResults]_vars

\* a mixed-case alias was accepted and reported as 'robust'
C6_Witness ==
    /\ results.method # "none"
    /\ results.opts.cov_type = MixedHeteroskedastic
    /\ results.cov_type = Robust

\* a fit step: one that returns results or rewrites the caches
C10_FitStep == results' # results \/ xhat' # xhat

\* C10: no fit changes the model's estimation inputs (the arrays, weights,
\* sigma, parameter names and common-exogenous flag held by the model) or the
\* constraint; and a fit with the options and constraint of the previous one
\* returns the same parameters and iteration count.
C10_FitFrame ==
    [][phase = "ready" =>
         /\ mod' = mod
         /\ C10_FitStep => constraints' = constraints
         /\ (/\ results.method # "none"
             /\ results'.method # "none"
             /\ results'.opts = results.opts
             /\ results'.constraints = results.constraints)
              => /\ results'.params = results.params
                 /\ results'.iter = results.iter]_vars

\* an iterated GLS fit under a constraint that is still held, caches rewritten
C10_Witness ==
    /\ results.method = "Iterative GLS"
    /\ xhat # NoCache
    /\ constraints # NoConstraint
    /\ results.constraints = constraints

FittedGMM == results.method # "none" /\ mod.cls = "IVSystemGMM"

\* C12: an IVSystemGMM fit reports as its iteration count the number of
\* parameter solves it performed and labels itself 'Iterative GMM' only when
\* that count exceeds 2; with iter_limit = 2 it performs two solves and
\* reports iteration count 2 and method '2-Step GMM'.
C12_TwoStepDefault ==
    FittedGMM =>
      /\ results.iter = results.steps
      /\ results.method = "Iterative GMM" => results.steps > 2
      /\ results.opts.iter_limit = 2 =>
            /\ results.steps = 2
            /\ results.iter = 2
            /\ results.method = "2-Step GMM"

\* The array a residual term names, for equation i
ArrayOf(name, i) ==
    CASE name = "_y" -> mod.y[i]
      [] name = "_x" -> mod.x[i]
      [] name = "_wy" -> mod.wy[i]
      [] name = "_wx" -> mod.wx[i]

\* C16: in the record of every fit, whichever path produced it, each
\* equation's resid is y - X @ b on the unweighted y and X of that equation,
\* b the slice of the final beta at the equation's column offset, and wresid
\* is the residual computed from the weighted arrays; for unit and non-unit
\* weights alike.
C16_ResidUnweighted ==
    results.method # "none" =>
      \A i \in DOMAIN results.individual :
         LET r == results.individual[i]
             b == Slice(Offset(mod, i), mod.x[i].k)
         IN  /\ r.resid.eq = i /\ r.resid.b = b /\ ~r.resid.scaled
             /\ ArrayOf(r.resid.y, i) = mod.y[i]
             /\ ArrayOf(r.resid.x, i) = mod.x[i]
             /\ r.wresid.eq = i /\ r.wresid.b = b
             /\ ArrayOf(r.wresid.y, i) = mod.wy[i]
             /\ ArrayOf(r.wresid.x, i) = mod.wx[i]

\* C17: no fit raises out of the per-equation F-statistic, whatever the
\* options and the equations (debiased=True and an equation whose only
\* regressor is a constant included): the fit returns its record, every
\* equation's entry holds a statistic or the invalid-statistic marker, and an
\* equation with no tested coefficient under debiased=True holds the marker.
C17_FStatNeverRaises ==
    phase = "ready" =>
      /\ error.kind # "zero_division"
      /\ results.method # "none" =>
            \A i \in DOMAIN results.individual :
               /\ results.individual[i].f_stat.kind \in {"wald", "invalid"}
               /\ (results.debiased /\ TestedDf(mod, i) = 0) =>
                     results.individual[i].f_stat.kind = "invalid"

\* C19: method='auto' is accepted by fit and selects the path as the default
\* method does: the OLS path on a common-exogenous system with no constraint
\* held, the GLS path on any other system.
C19_AutoSelectsPath ==
    (FittedLS /\ results.opts.method = "auto") =>
      IF mod.common_exog /\ results.constraints = NoConstraint
      THEN results.method = "OLS" /\ results.steps = 0
      ELSE results.method \in {"GLS", "Iterative GLS"}

\* C26: the method label and iteration count of an IV3SLS/SUR result
\* identify the work done: 'OLS' with count 0 on the OLS path, 'GLS' when
\* exactly one GLS step ran, 'Iterative GLS' exactly when more than one ran
\* (so an iterate=True fit that converges after its first step is 'GLS');
\* and every per-equation record carries the method and count of the system
\* record.
C26_MethodIdentifiesWork ==
    FittedLS =>
       /\ results.iter = results.steps
       /\ UsesOLS(mod, results.constraints, results.opts.method)
             <=> (results.method = "OLS" /\ results.steps = 0)
       /\ results.method = "GLS" <=> results.steps = 1
       /\ results.method = "Iterative GLS" <=> results.steps > 1
       /\ \A i \in DOMAIN results.individual :
             /\ results.individual[i].method = results.method
             /\ results.individual[i].iter = results.iter

\* an iterate=True fit with room for more steps that converged after its
\* first GLS step
C26_Witness ==
    /\ FittedGLS
    /\ results.opts.iterate
    /\ results.opts.iter_limit > 1
    /\ results.steps = 1
    /\ results.method = "GLS"

\* What an IVSystemGMM fit did besides counting its re-weighted solves: every
\* re-weighted solve but the first followed a norm above tol, re-weighting
\* stopped at the cap or at a norm of at most tol, v was computed in the
\* first re-weighted iteration and never again, and without a re-weighted
\* solve the parameters are the one-step estimate
GmmLoopSound ==
    LET o  == results.opts
        rw == results.steps - 1
    IN  /\ results.steps >= 1
        /\ \A j \in 2..rw : mod.rms[j - 1] > o.tol
        /\ rw >= 1 => (results.steps >= o.iter_limit \/ results.norm <= o.tol)
        /\ rw >= 1 => rw < o.iter_limit
        /\ results.vcount = (IF rw >= 1 THEN 1 ELSE 0)
        /\ rw >= 1 => /\ results.vinv.src = "inv"
                      /\ results.vinv.w.of.w.src \in {"zz", "initial_weight"}
        /\ rw = 0 => results.vinv = NoVinv
        /\ o.iter_limit <= 1 =>
              /\ rw = 0
              /\ results.params.solve = "gmm"
              /\ results.params.w.src \in {"zz", "initial_weight"}

\* C24: IVSystemGMM.fit terminates after one initial solve with the initial
\* weight matrix plus at most iter_limit - 1 re-weighted solves; it stops
\* re-weighting as soon as the norm of the parameter change is at most tol,
\* the matrix V of that norm is computed once, in the first re-weighted
\* iteration, and with iter_limit <= 1 the returned beta is the one-step
\* estimate.
C24_ReweightedWithinLimit ==
    FittedGMM =>
       /\ results.steps - 1 <= results.opts.iter_limit - 1
       /\ GmmLoopSound

\* C24 amended: as C24, with at most max(iter_limit - 1, 0) re-weighted
\* solves: the initial solve is always performed, so with iter_limit = 0
\* there is one solve and no re-weighted one.
C24_ReweightedWithinLimitOrNone ==
    FittedGMM =>
       /\ results.steps - 1 <= Max(results.opts.iter_limit - 1, 0)
       /\ GmmLoopSound

\* a fit that re-weighted once and stopped below the cap because the norm
\* had fallen to tol
C24_Witness ==
    /\ FittedGMM
    /\ results.steps = 2
    /\ results.steps < results.opts.iter_limit
    /\ results.norm <= results.opts.tol
    /\ results.vcount = 1

-----------------------------------------------------------------------------
(* Properties of an equation's summary statistics, checked under SpecStats *)

\* C18: in an equation's results, with resid_ss >= 0, total_ss > 0 and
\* nobs > df_model, r2 is 1 - resid_ss / total_ss of that record and r2a is
\* 1 - (resid_ss / (nobs - df_model)) / (total_ss / (nobs - has_constant));
\* and r2a <= r2 whenever df_model > 1, with or without a constant.
C18_AdjustedR2 ==
    stats.done =>
      LET c == IF stats.has_constant THEN 1 ELSE 0
      IN  /\ stats.r2[2] > 0 /\ stats.r2a[2] > 0
          /\ stats.r2[1] * stats.total_ss
                = (stats.total_ss - stats.resid_ss) * stats.r2[2]
          /\ stats.r2a[1] * (stats.total_ss * (stats.nobs - stats.df_model))
                = (stats.total_ss * (stats.nobs - stats.df_model)
                     - stats.resid_ss * (stats.nobs - c)) * stats.r2a[2]
          /\ stats.df_model > 1 => RatLeq(stats.r2a, stats.r2)

\* an equation with a constant, several regressors and a positive residual
\* sum of squares, whose adjusted R2 is strictly below its R2
C18_Witness ==
    /\ stats.done
    /\ stats.has_constant
    /\ stats.df_model > 1
    /\ stats.resid_ss > 0
    /\ ~RatEq(stats.r2a, stats.r2)

-----------------------------------------------------------------------------
(* Properties of a kept results record, checked under SpecKeep             *)

\* What the kept record shows now: its own fields, and its constraint read
\* through the reference it holds
KeptView ==
    [constraints |-> kept.object, params |-> kept.record.params,
     cov |-> kept.record.cov, sigma |-> kept.record.sigma,
     method |-> kept.record.method]

\* C11: once fit has returned a results record, no later add_constraints,
\* reset_constraints or fit changes the constraint, parameters, covariance,
\* sigma or method that record shows, and the constraint it shows is the one
\* that was in force when that fit ran.
C11_KeptRecordIndependent ==
    /\ [](kept # NoKept => kept.object = kept.record.constraints)
    /\ [][kept # NoKept => KeptView' = KeptView]_vars

\* a record kept from a fit under a constraint, after the model has been
\* given another constraint and fitted again
C11_Witness ==
    /\ kept # NoKept
    /\ kept.record.constraints # NoConstraint
    /\ constraints # NoConstraint
    /\ constraints # kept.record.constraints
    /\ results # NoResults
    /\ results # kept.record

-----------------------------------------------------------------------------
(* Properties of construction, checked under SpecBuild                     *)

\* The field f of a given equation as the caller passed it (NoneMat if absent)
GivenField(e, f) ==
    IF e.form = "tuple"
    THEN LET k == CASE f = "dependent" -> 1 [] f = "exog" -> 2 [] f = "endog" -> 3
                    [] f = "instruments" -> 4 [] OTHER -> 5
         IN  IF k <= Len(e.items) THEN e.items[k] ELSE NoneMat
    ELSE IF f \in {"dependent", "exog"} \/ f \in e.keys THEN e[f] ELSE NoneMat

\* The rows flagged missing in any field of any given equation
GivenMissing ==
    UNION {GivenField(given[i][2], f).null : i \in DOMAIN given, f \in Fields}

\* A field present with a row count other than the dependent's
GivenRowMismatch(e) ==
    \E f \in {"exog", "endog", "instruments"} :
       /\ GivenField(e, f) # NoneMat
       /\ GivenField(e, f).n # GivenField(e, "dependent").n

\* An equation failing a check on the rows that are left
GivenOffends(e) ==
    LET nobs == GivenField(e, "dependent").n - Cardinality(GivenMissing)
        kx == Len(GivenField(e, "exog").cols) + Len(GivenField(e, "endog").cols)
        kz == Len(GivenField(e, "exog").cols) + Len(GivenField(e, "instruments").cols)
    IN  nobs <= kx \/ ~e.xfull \/ kz < kx \/ kz > nobs \/ ~e.zfull

GivenMismatched == {i \in DOMAIN given : GivenRowMismatch(given[i][2])}
GivenOffending == {i \in DOMAIN given : GivenOffends(given[i][2])}

C8_RowsDropped ==
    phase = "ready" =>
      \A i \in DOMAIN given :
         LET n    == GivenField(given[i][2], "dependent").n
             left == (1..n) \ GivenMissing
         IN  /\ mod.dependent[i].rows = left
             /\ mod.exog[i].rows = left
             /\ mod.endog[i].rows = left
             /\ mod.instr[i].rows = left
             /\ mod.weights[i].rows = left
             /\ DOMAIN mod.w[i] = left
             /\ mod.y[i].rows = left /\ mod.x[i].rows = left /\ mod.z[i].rows = left
             /\ Cardinality(mod.dependent[i].rows) = n - Cardinality(GivenMissing)

\* rows flagged in two different equations, one of them in the weights only
C8_Witness ==
    /\ phase = "ready"
    /\ Cardinality(GivenMissing) = 2
    /\ \E i \in DOMAIN given : GivenField(given[i][2], "weights").null # {}

\* C13: the common-exogenous flag of a constructed system is true exactly
\* when every equation was given the same exog object, the same endog object
\* where one is supplied, and weight vectors that are element-wise identical
\* once each is normalized to mean 1 (so vectors differing by a positive scale
\* factor keep it true); it is false for distinct regressor objects and when
\* only some equations share theirs.
C13_CommonExogFlag ==
    phase = "ready" =>
      (mod.common_exog <=>
         \A i, j \in DOMAIN given :
            /\ GivenField(given[i][2], "exog").id = GivenField(given[j][2], "exog").id
            /\ GivenField(given[i][2], "endog").id = GivenField(given[j][2], "endog").id
            /\ mod.w[i] = mod.w[j])

\* The order the caller's mapping promises: its insertion order when it is an
\* OrderedDict, ascending label order otherwise
AskedOrder ==
    IF asked.ordered THEN asked.labels
    ELSE SortedSeq({asked.labels[i] : i \in DOMAIN asked.labels})

\* C14: the equations of a constructed system are in the caller's insertion
\* order when an OrderedDict was supplied and in ascending label order for
\* any other mapping, for every class; the equation labels, the stacked
\* parameter names (each equation's exogenous columns before its endogenous
\* ones) and the per-equation result entries all follow that order.
C14_EquationOrder ==
    phase = "ready" =>
      /\ mod.eq_labels = AskedOrder
      /\ mod.param_names =
            Flatten([i \in DOMAIN AskedOrder |->
                       LET cols == mod.exog[i].cols \o mod.endog[i].cols
                       IN  [j \in DOMAIN cols |-> AskedOrder[i] \o <<"_">> \o cols[j]]])
      /\ results.method # "none" =>
            [i \in DOMAIN results.individual |-> results.individual[i].eq_label]
               = AskedOrder

\* C15: the stacked parameter names '{eq_label}_{column_name}' of a
\* constructed system are pairwise distinct, whatever the distinct equation
\* labels and the column names, underscores in them included.
C15_ParamNamesDistinct ==
    phase = "ready" =>
      \A i, j \in DOMAIN mod.param_names :
         i # j => mod.param_names[i] # mod.param_names[j]

\* Z = [exog, instr] of a given equation has at least as many columns as
\* there are observations once the flagged rows are dropped
GivenInstrumentsFill(e) ==
    Len(GivenField(e, "exog").cols) + Len(GivenField(e, "instruments").cols)
      >= GivenField(e, "dependent").n - Cardinality(GivenMissing)

\* A given equation passes the checks made before the instrument count is
\* compared with the observations
GivenRegressorsSound(e) ==
    LET nobs == GivenField(e, "dependent").n - Cardinality(GivenMissing)
        kx == Len(GivenField(e, "exog").cols) + Len(GivenField(e, "endog").cols)
        kz == Len(GivenField(e, "exog").cols) + Len(GivenField(e, "instruments").cols)
    IN  nobs > kx /\ e.xfull /\ kz >= kx

\* C20: construction requires strictly more observations than instrument
\* columns: a system with an equation whose Z = [exog, instr] has as many
\* columns as there are post-alignment observations, or more, is rejected,
\* and when that is the system's only defect the error is the
\* fewer-observations-than-instruments one naming that equation.
C20_StrictlyMoreObservations ==
    (route # "none" /\ error.kind # "index" /\ GivenMismatched = {}) =>
      \A i \in DOMAIN given :
         GivenInstrumentsFill(given[i][2]) =>
           /\ phase = "failed"
           /\ (/\ GivenRegressorsSound(given[i][2])
               /\ \A j \in DOMAIN given :
                     j # i => /\ ~GivenOffends(given[j][2])
                              /\ ~GivenInstrumentsFill(given[j][2]))
                => /\ error.kind = "fewer_obs_instr"
                   /\ error.eq = given[i][1]

\* C9: building one model from data with at least one missing row triggers
\* exactly one dropped-rows diagnostic through every construction route, and
\* building from data with no missing row triggers none.
C9_OneDiagnostic ==
    phase = "ready" => warnings = IF GivenMissing # {} THEN 1 ELSE 0

\* C21: IVSystemGMM (constructor and from_formula) accepts each documented
\* weight_type name: 'unadjusted' or 'homoskedastic' select the homoskedastic
\* weight estimator, 'robust' or 'heteroskedastic' the heteroskedastic one;
\* every other value is rejected with the configuration error and no model.
C21_DocumentedWeightTypes ==
    asked.cls = "IVSystemGMM" =>
       /\ asked.weight_type \in {Unadjusted, Homoskedastic, Robust, Heteroskedastic}
             => /\ error.kind # "weight_type"
                /\ phase = "ready" =>
                      mod.weight_est =
                         IF asked.weight_type \in {Unadjusted, Homoskedastic}
                         THEN "HomoskedasticWeightMatrix"
                         ELSE "HeteroskedasticWeightMatrix"
       /\ asked.weight_type \notin {Unadjusted, Homoskedastic, Robust, Heteroskedastic}
             => phase = "failed" /\ mod = NoModel /\ error.kind = "weight_type"

\* C22: every successfully constructed SUR model has no endogenous regressors
\* and no instruments in any equation (X = Z = exog), whatever tuple length
\* or mapping keys the caller supplied; a (dependent, exog) tuple gets unit
\* weights and a (dependent, exog, weights) tuple its third element.  (given
\* holds the tuples as SUR.__init__ passed them on: four elements for a
\* caller's two, five for a caller's three.)
C22_SURPurelyExogenous ==
    (asked.cls = "SUR" /\ phase = "ready") =>
       \A i \in DOMAIN given :
          /\ Shape1(mod.endog[i]) = 0
          /\ Shape1(mod.instr[i]) = 0
          /\ mod.x[i] = mod.z[i]
          /\ mod.x[i].src = <<mod.exog[i].id>>
          /\ (given[i][2].form = "tuple" /\ Len(given[i][2].items) = 4)
                => \A r \in mod.weights[i].rows : mod.weights[i].vals[r] = 1
          /\ (given[i][2].form = "tuple" /\ Len(given[i][2].items) = 5)
                => mod.weights[i].id = given[i][2].items[5].id

-----------------------------------------------------------------------------
(* Properties of a supplied sigma, checked under SpecSigma                 *)

\* The supplied matrix as a GLS step uses it under the options o
SuppliedSigma(o) ==
    [src |-> "given", of |-> NoBeta, debiased |-> FALSE, diag |-> ~o.full_cov]

\* C25: when sigma was supplied at construction every GLS step of fit uses
\* exactly that matrix (its diagonal when full_cov=False), never one
\* estimated from residuals, so successive GLS steps return the same beta;
\* with iterate=True and tol > 0 the loop stops after at most two steps; and
\* the sigma of the results is the supplied matrix (or its diagonal).
C25_SuppliedSigmaUsed ==
    (FittedGLS /\ mod.sigma = GivenSigma) =>
       LET o == results.opts
           h == results.beta_hist
       IN  /\ Len(h) = results.steps + 1
           /\ \A j \in 2..Len(h) : /\ h[j].solve = "gls"
                                    /\ h[j].sigma = SuppliedSigma(o)
           /\ \A j \in 3..Len(h) : h[j] = h[j - 1]
           /\ (o.iterate /\ o.tol > 0) => results.steps <= 2
           /\ results.params = h[Len(h)]
           /\ results.sigma = SuppliedSigma(o)

\* an iterated fit with a supplied sigma, tol > 0 and room for a third
\* step, whose first step moved beta by at least tol: it made a second step
\* and stopped there
C25_Witness ==
    /\ FittedGLS
    /\ mod.sigma = GivenSigma
    /\ results.opts.iterate
    /\ results.opts.tol > 0
    /\ results.opts.iter_limit > 2
    /\ results.steps = 2
    /\ ~results.opts.full_cov

-----------------------------------------------------------------------------
(* Properties of the stacked solve, checked under SpecSolve                *)

\* Least squares on one equation alone: the coefficient xhat'y / xhat'xhat
\* and the residual y - x b of each observation
AloneBeta(i) ==
    <<Dot(stacked.wxhat[i], stacked.wy[i]), Dot(stacked.wxhat[i], stacked.wxhat[i])>>
AloneEps(i, r) ==
    RatSub(<<stacked.wy[i][r], 1>>, RatMul(<<stacked.wx[i][r], 1>>, AloneBeta(i)))

\* C23: on the OLS path of an unconstrained system the stacked solve
\* decouples by equation: each equation's coefficient and residual are those
\* of least squares on that equation alone (its own projected regressors,
\* regressors and dependent), whatever the other equation's data.
C23_SolveDecouples ==
    stacked.done =>
       \A i \in DOMAIN stacked.beta :
          /\ stacked.beta[i][2] # 0
          /\ RatEq(stacked.beta[i], AloneBeta(i))
          /\ \A r \in 1..SolveRows :
                /\ stacked.eps[i][r][2] # 0
                /\ RatEq(stacked.eps[i][r], AloneEps(i, r))

\* The solve has run on two equations whose projected regressors are not
\* orthogonal, the first with a regressor that differs from its projection,
\* and found a non-zero coefficient and a non-zero residual
C23_Witness ==
    /\ stacked.done
    /\ Dot(stacked.wxhat[1], stacked.wxhat[2]) # 0
    /\ stacked.wx[1] # stacked.wxhat[1]
    /\ stacked.wxhat[1] # stacked.wxhat[2]
    /\ stacked.beta[1][1] # 0 /\ stacked.beta[2][1] # 0
    /\ \E r \in 1..SolveRows : stacked.eps[1][r][1] # 0

\* C27: the within-equation row-count check runs on the rows as given, before
\* any row is dropped, and the observation-count and rank checks on the rows
\* left after dropping: an equation with more raw rows than regressors but
\* not more once the system-wide missing rows are removed is rejected with
\* the fewer-observations error, the dropped-rows diagnostic having been
\* emitted by then; a row-count mismatch is raised before any diagnostic.
C27_ChecksAfterDrop ==
    (route # "none" /\ error.kind # "index") =>
       /\ GivenMismatched # {} => (error.kind = "rows" /\ warnings = 0)
       /\ \A i \in DOMAIN given :
             LET e    == given[i][2]
                 raw  == GivenField(e, "dependent").n
                 kx   == Len(GivenField(e, "exog").cols) + Len(GivenField(e, "endog").cols)
                 nobs == raw - Cardinality(GivenMissing)
             IN  (/\ GivenMismatched = {}
                  /\ raw > kx
                  /\ nobs <= kx
                  /\ \A j \in 1..(i - 1) : ~GivenOffends(given[j][2]))
                 => /\ phase = "failed"
                    /\ mod = NoModel
                    /\ error = Raise("fewer_obs", given[i][1])
                    /\ warnings = 1

\* an equation with one raw row more than it has regressors, rejected because
\* a row missing in the other equation was dropped from it
C27_Witness ==
    /\ phase = "failed"
    /\ error.kind = "fewer_obs"
    /\ warnings = 1
    /\ \E i \in DOMAIN given :
          /\ error.eq = given[i][1]
          /\ GivenField(given[i][2], "dependent").n
                = Len(GivenField(given[i][2], "exog").cols)
                    + Len(GivenField(given[i][2], "endog").cols) + 1
          /\ \A f \in Fields : GivenField(given[i][2], f).null = {}
          /\ Cardinality(GivenMissing) = 1

====
